---- MODULE Spec2Model ----
(***************************************************************************)
(* Worker performance profiles (src/server.py): identity resolution,       *)
(* the profile / rating / history / note tables and the HTTP handlers      *)
(* that mutate them.                                                       *)
(*                                                                         *)
(* Text values are sequences of one-character strings, so that strip(),    *)
(* lower() and re.sub() are computed and not assumed.  SQL NULL / Python   *)
(* None is the value NULL below.  A score is <<n>>, <<>> (missing, NULL)   *)
(* or <<0, 0>> (a JSON value float() rejects).                             *)
(***************************************************************************)
EXTENDS Integers, Sequences, FiniteSets, TLC

\* ------------------------------------------------------------------------
\* Bounds of the model
\* ------------------------------------------------------------------------
\* requests handled in one behaviour
MaxOps == 3

\* ------------------------------------------------------------------------
\* Text
\* ------------------------------------------------------------------------
NULL == <<"NULL">>

IsSpace(c) == c \in {" ", "\t"}

LowerOf == ("A" :> "a") @@ ("B" :> "b") @@ ("C" :> "c") @@ ("D" :> "d") @@ ("E" :> "e")
           @@ ("F" :> "f") @@ ("G" :> "g") @@ ("H" :> "h") @@ ("I" :> "i") @@ ("J" :> "j")
           @@ ("K" :> "k") @@ ("L" :> "l") @@ ("M" :> "m") @@ ("N" :> "n") @@ ("O" :> "o")
           @@ ("P" :> "p") @@ ("Q" :> "q") @@ ("R" :> "r") @@ ("S" :> "s") @@ ("T" :> "t")
           @@ ("U" :> "u") @@ ("V" :> "v") @@ ("W" :> "w") @@ ("X" :> "x") @@ ("Y" :> "y")
           @@ ("Z" :> "z")

Lower(c) == IF c \in DOMAIN LowerOf THEN LowerOf[c] ELSE c

\* str.lower()
LowerStr(s) == [i \in DOMAIN s |-> Lower(s[i])]

RECURSIVE LStrip(_)
LStrip(s) == IF s # <<>> /\ IsSpace(Head(s)) THEN LStrip(Tail(s)) ELSE s

RECURSIVE RStrip(_)
RStrip(s) == IF s # <<>> /\ IsSpace(s[Len(s)]) THEN RStrip(SubSeq(s, 1, Len(s) - 1)) ELSE s

\* str.strip()
Strip(s) == RStrip(LStrip(s))

\* re.sub(r'\s+', rep, s)
RECURSIVE ReSubSpaces(_, _)
ReSubSpaces(rep, s) ==
    IF s = <<>> THEN <<>>
    ELSE IF IsSpace(Head(s)) THEN rep \o ReSubSpaces(rep, LStrip(Tail(s)))
    ELSE <<Head(s)>> \o ReSubSpaces(rep, Tail(s))

\* Python truthiness of a text-or-None value
Truthy(x) == x # NULL /\ x # <<>>

\* str(x or '') for a text-or-None x
StrOrEmpty(x) == IF Truthy(x) THEN x ELSE <<>>

\* str(x) for a text-or-None x: str(None) is the text 'None'
PyStr(x) == IF x = NULL THEN <<"N", "o", "n", "e">> ELSE x

\* Mutant: collapses whitespace but keeps the letter case
normalize_worker_name_keeping_case(name) == ReSubSpaces(<<" ">>, Strip(StrOrEmpty(name)))

\* Mutant: strips and lowercases but leaves the whitespace inside the name as it is
normalize_worker_name_keeping_spaces(name) == LowerStr(Strip(StrOrEmpty(name)))

normalize_worker_name(name) == LowerStr(ReSubSpaces(<<" ">>, Strip(StrOrEmpty(name))))

normalize_employee_id(employee_id) ==
    LET cleaned == Strip(StrOrEmpty(employee_id))
    IN  IF cleaned = <<>> THEN NULL ELSE LowerStr(ReSubSpaces(<<>>, cleaned))

canonical_worker_key(name, employee_id) ==
    LET normalized_name == normalize_worker_name(name)
        normalized_employee_id == normalize_employee_id(employee_id)
    IN  IF Truthy(normalized_employee_id)
        THEN normalized_name \o <<":", ":">> \o normalized_employee_id
        ELSE normalized_name

\* ------------------------------------------------------------------------
\* Request payloads.  ABSENT is a key the JSON body does not have.
\* ------------------------------------------------------------------------
ABSENT == <<"ABSENT">>

\* dict.get(key, default)
PayloadGet(v, default) == IF v = ABSENT THEN default ELSE v

Picker == <<"P", "i", "c", "k", "e", "r">>
Warehouse == <<"W", "a", "r", "e", "h", "o", "u", "s", "e">>
LoadingDock == <<"L", "o", "a", "d", "i", "n", "g", " ", "d", "o", "c", "k">>
Late == <<"L", "a", "t", "e">>
WorkQuality == <<"W", "o", "r", "k", " ", "q", "u", "a", "l", "i", "t", "y">>
LateOnTime == <<"L", "a", "t", "e", " ", "/", " ", "o", "n", " ", "t", "i", "m", "e">>
Sam == <<"S", "a", "m">>
Ok == <<"o", "k">>

\* defaults of initialize_admin_catalog
DefaultCatalog == [job_types |-> <<LoadingDock, Warehouse, Picker>>,
                   criteria_names |-> <<LateOnTime, WorkQuality>>]

Range(f) == {f[i] : i \in DOMAIN f}

\* Worker names as callers send them
NameAB == <<"A", " ", "B">>
NameVariant == <<" ", "a", " ", "\t", "b", " ">>
NameLower == <<"a", " ", "b">>
NameCy == <<"C", "y">>
NameShort == <<"C">>

\* Employee ids as callers send them
EidE1 == <<"E", "1">>
EidVariant == <<" ", "e", " ", "1">>
EidE2 == <<"E", "2">>

\* selectedCriteria: kind is "absent" (no such key), "null", "list" (items are the
\* criterion names of its entries) or "other" (a JSON value that is no list)
Criteria(kind, items) == [kind |-> kind, items |-> items]

\* Rating payloads as callers send them
GoodRating == [category |-> Picker, score |-> <<4>>, reviewer |-> Sam,
               note |-> ABSENT, ratedAt |-> 0, selectedCriteria |-> Criteria("absent", <<>>)]
LateRating == [category |-> <<" ", "p", "i", "c", "k", "e", "r">>, score |-> <<-2>>, reviewer |-> Sam,
               note |-> Ok, ratedAt |-> 1, selectedCriteria |-> Criteria("list", <<WorkQuality>>)]
RatingInputs == {GoodRating, LateRating,
                 [GoodRating EXCEPT !.category = ABSENT],
                 [GoodRating EXCEPT !.category = Late],
                 [GoodRating EXCEPT !.score = <<6>>],
                 [GoodRating EXCEPT !.score = <<0, 0>>],
                 [GoodRating EXCEPT !.reviewer = ABSENT],
                 [GoodRating EXCEPT !.selectedCriteria = Criteria("list", <<Late>>)],
                 [GoodRating EXCEPT !.selectedCriteria = Criteria("other", <<>>)]}

\* now_iso(): the wall clock, which callers' own timestamps may precede or follow
NowValues == {2}

\* ------------------------------------------------------------------------
\* State: the four tables, their AUTOINCREMENT sequences, the admin catalog
\* and the response of the last request.
\* ------------------------------------------------------------------------
\* threads: the submitRating request each server thread is in the middle of
\* subscribers: EVENT_SUBSCRIBERS, the queue of every registered /api/events request
\* streams: the /api/events request of each client, from its registration to its end
VARIABLES profiles, ratings, history, notes, seq, catalog, response, ops, threads,
          subscribers, streams

vars == <<profiles, ratings, history, notes, seq, catalog, response, ops, threads,
          subscribers, streams>>
store == <<profiles, ratings, history, notes, seq>>

NoMatch == 0

\* ThreadingHTTPServer gives every request a thread and db_connection() gives every
\* thread a connection of its own; two of them are enough for a race of two requests
Threads == {1, 2}

\* pc: "idle", "key" (before the key SELECT of the resolver), "name" (before its
\* name SELECT), "write" (before the first INSERT / UPDATE) or "done" (answered)
IdleThread == [pc |-> "idle", fields |-> <<>>, existing |-> NoMatch, brand_new |-> FALSE,
               status |-> 0]

\* The clients that may open /api/events, and the request of one that has not
Clients == {1, 2}
NoStream == [pc |-> "none", conn |-> "open"]

Init ==
    /\ profiles = <<>>
    /\ ratings = {}
    /\ history = {}
    /\ notes = {}
    /\ seq = [profiles |-> 0, ratings |-> 0, history |-> 0, notes |-> 0]
    /\ catalog = DefaultCatalog
    /\ response = [op |-> "start", status |-> 0, raised |-> "", profileId |-> 0, ratingId |-> 0,
                   name |-> NULL, employeeId |-> NULL]
    /\ ops = 0
    /\ threads = [t \in Threads |-> IdleThread]
    /\ subscribers = <<>>
    /\ streams = [s \in Clients |-> NoStream]

\* One more request is handled, from its first line to its answer
Tick == ops < MaxOps /\ ops' = ops + 1 /\ UNCHANGED <<threads, streams>>

\* The handler's answer: _send_json(status, ...), or status 0 and the exception that
\* left the handler unanswered.  profileId / ratingId name the rows the request wrote
\* (profileId also the row a refused updateProfile addressed); name / employeeId are
\* the identity a submitRating, createOrUpdateProfile or updateProfile request asked
\* to persist (NULL for every other request).
Answer(op, status, raised, profileId, ratingId, name, employeeId) ==
    response' = [op |-> op, status |-> status, raised |-> raised,
                 profileId |-> profileId, ratingId |-> ratingId,
                 name |-> name, employeeId |-> employeeId]

\* queue.Queue() is made with maxsize 0, which means no limit
maxsize == 0

\* Mutant: a queue that holds one message
FullAtOne(queue) == Len(queue) >= 1

\* Queue.full(): 0 < maxsize <= qsize; put() waits while it holds
Full(queue) == 0 < maxsize /\ maxsize <= Len(queue)

\* publish_change_event('profiles_updated', payload): every queue registered at the
\* call gets the message (its timestamp is left out)
publish_change_event(payload) ==
    /\ \A q \in DOMAIN subscribers : ~Full(subscribers[q])
    /\ subscribers' = [q \in DOMAIN subscribers |-> Append(subscribers[q], payload)]

\* {'profileId': ..., 'action': ...}
ChangeEvent(profileId, action) == [profileId |-> profileId, action |-> action]

\* Mutant: the event is published before the handler looks at the outcome
PublishAndAnswer(op, status, raised, profileId, ratingId, name, employeeId) ==
    /\ Answer(op, status, raised, profileId, ratingId, name, employeeId)
    /\ publish_change_event(ChangeEvent(profileId, op))

\* An answer on a path of the handler that has no publish_change_event: an early
\* return, an exception, a read
RespondFor(op, status, raised, profileId, ratingId, name, employeeId) ==
    /\ Answer(op, status, raised, profileId, ratingId, name, employeeId)
    /\ UNCHANGED subscribers

Respond(op, status, raised, profileId, ratingId) ==
    RespondFor(op, status, raised, profileId, ratingId, NULL, NULL)

\* ------------------------------------------------------------------------
\* Identity resolver
\* ------------------------------------------------------------------------
\* SELECT * FROM worker_profiles WHERE canonical_worker_key = ?  (fetchone)
key_lookup(P, canonical_key) ==
    LET key_matches == {i \in DOMAIN P : P[i].canonical_worker_key = canonical_key}
    IN  IF key_matches # {} THEN CHOOSE i \in key_matches : TRUE ELSE NoMatch

\* Mutant: takes the first row of an ambiguous name match (ORDER BY ... id DESC)
name_lookup_first_match(P, worker_name) ==
    LET normalized_name == normalize_worker_name(worker_name)
        name_matches == {i \in DOMAIN P : P[i].canonical_name = normalized_name}
    IN  IF name_matches # {} THEN CHOOSE i \in name_matches : \A j \in name_matches : j <= i
        ELSE NoMatch

\* SELECT * FROM worker_profiles WHERE canonical_name = ?  (fetchall), one row or none
name_lookup(P, worker_name) ==
    LET normalized_name == normalize_worker_name(worker_name)
        name_matches == {i \in DOMAIN P : P[i].canonical_name = normalized_name}
    IN  IF Cardinality(name_matches) = 1 THEN CHOOSE i \in name_matches : TRUE ELSE NoMatch

\* Mutant: falls back to the name although an employee id was supplied
find_profile_ignoring_employee_id(P, worker_name, canonical_key, external_employee_id) ==
    LET existing == key_lookup(P, canonical_key)
    IN  IF existing # NoMatch THEN existing ELSE name_lookup(P, worker_name)

find_profile_by_rating_identity(P, worker_name, canonical_key, external_employee_id) ==
    LET existing == key_lookup(P, canonical_key)
    IN  IF existing # NoMatch THEN existing
        ELSE IF external_employee_id # NULL THEN NoMatch
        ELSE name_lookup(P, worker_name)

\* ------------------------------------------------------------------------
\* Validation
\* ------------------------------------------------------------------------
load_admin_list(key) == catalog[key]

LowerSet(list) == {LowerStr(list[i]) : i \in DOMAIN list}

\* TRUE iff validate_allowed_rating_values returns an error message.
\* category is payload.get('category', '') and selected payload.get('selectedCriteria', []).
validate_allowed_rating_values(category_value, selected) ==
    LET category == Strip(PyStr(category_value))
        allowed_job_types == load_admin_list("job_types")
        lookup == LowerSet(load_admin_list("criteria_names"))
        selected_criteria == IF selected.kind \in {"absent", "null"} THEN <<>> ELSE selected.items
    IN  \/ /\ category # <<>>
           /\ allowed_job_types # <<>>
           /\ LowerStr(category) \notin LowerSet(allowed_job_types)
        \/ selected.kind = "other"
        \/ \E i \in DOMAIN selected_criteria :
              LET criterion == Strip(PyStr(selected_criteria[i]))
              IN  \/ criterion = <<>>
                  \/ lookup # {} /\ LowerStr(criterion) \notin lookup

\* float(x) failed (x missing or no number), or the number is outside [-5, 5]
ScoreRejected(score) == Len(score) # 1 \/ score[1] < -5 \/ score[1] > 5

\* TRUE iff validate_rating_payload returns an error message
validate_rating_payload(workerName, payload, require_worker_name) ==
    \/ require_worker_name /\ Len(Strip(PyStr(PayloadGet(workerName, <<>>)))) < 2
    \/ ScoreRejected(payload.score)
    \/ Strip(PyStr(PayloadGet(payload.reviewer, <<>>))) = <<>>

\* ------------------------------------------------------------------------
\* Storage: constraints of initialize_database and ensure_uniqueness_indexes
\* ------------------------------------------------------------------------
\* Mutant: ensure_uniqueness_indexes never ran; only worker_profiles.name is UNIQUE
UniqueViolationNameOnly(P, id, row) ==
    \E j \in DOMAIN P \ {id} : P[j].name = row.name

\* Mutant: idx_worker_profiles_canonical_worker_key was never created
UniqueViolationWithoutKeyIndex(P, id, row) ==
    \E j \in DOMAIN P \ {id} :
        \/ P[j].name = row.name
        \/ row.external_employee_id # NULL
           /\ P[j].external_employee_id = row.external_employee_id

\* worker_profiles.name UNIQUE, and the two partial unique indexes: TRUE iff
\* writing `row` as profile `id` of table P raises sqlite3.IntegrityError
UniqueViolation(P, id, row) ==
    \E j \in DOMAIN P \ {id} :
        \/ P[j].name = row.name
        \/ row.external_employee_id # NULL
           /\ P[j].external_employee_id = row.external_employee_id
        \/ row.canonical_worker_key # NULL
           /\ P[j].canonical_worker_key = row.canonical_worker_key

\* Mutant: a connection opened without PRAGMA foreign_keys = ON
foreign_keys_off(P, worker_id) == FALSE

\* FOREIGN KEY (worker_id) REFERENCES worker_profiles(id), with foreign_keys = ON
ForeignKeyViolation(P, worker_id) == worker_id \notin DOMAIN P

RatingRow(id, worker_id, category, score, reviewer, note, rated_at) ==
    [id |-> id, worker_id |-> worker_id, job_category |-> category, score |-> score,
     reviewer |-> reviewer, notes |-> note, rated_at |-> rated_at]

HistoryRow(id, worker_id, category, score, note, created_at) ==
    [id |-> id, worker_id |-> worker_id, category |-> category, score |-> score,
     note |-> note, created_at |-> created_at]

\* f'Rating logged by {reviewer}' + (f': {note}' if note else '')
RatingLoggedNote(reviewer, note) ==
    <<"Rating logged by ">> \o reviewer \o (IF note # <<>> THEN <<": ">> \o note ELSE <<>>)

\* append_profile_history_entry: `note or None`
append_profile_history_entry(H, id, worker_id, category, score, note, created_at) ==
    H \cup {HistoryRow(id, worker_id, category, score,
                       IF note = <<>> THEN NULL ELSE note, created_at)}

\* ------------------------------------------------------------------------
\* POST /api/profiles  (submitRating)
\* ------------------------------------------------------------------------
\* The values the handler reads from the body before it opens the connection
SubmitFields(workerName, employeeId, payload, now) ==
    LET worker_name == Strip(PyStr(PayloadGet(workerName, NULL)))
        external_employee_id == normalize_employee_id(PayloadGet(employeeId, NULL))
    IN  [worker_name |-> worker_name,
         external_employee_id |-> external_employee_id,
         key |-> canonical_worker_key(worker_name, external_employee_id),
         category |-> Strip(PyStr(PayloadGet(payload.category, NULL))),
         score |-> payload.score[1],
         reviewer |-> Strip(PyStr(PayloadGet(payload.reviewer, NULL))),
         note |-> Strip(PyStr(PayloadGet(payload.note, <<>>))),
         rated_at |-> IF payload.ratedAt # 0 THEN payload.ratedAt ELSE now]

\* The transaction of the handler, from its first INSERT / UPDATE to the commit or
\* rollback of the with-block, for the row `existing` the resolver returned; then,
\* when `publishes`, the lines after the with-block: publish_change_event and the
\* answer
SubmitWith(f, existing, publishes) ==
    LET worker_id == IF existing = NoMatch THEN seq.profiles + 1 ELSE existing
        row == IF existing = NoMatch
               THEN [id |-> worker_id, name |-> f.worker_name, job_category |-> f.category,
                     score |-> <<f.score>>, reviewer |-> f.reviewer, notes |-> f.note,
                     rated_at |-> f.rated_at, profile_status |-> NULL, background_info |-> NULL,
                     external_employee_id |-> f.external_employee_id,
                     canonical_name |-> normalize_worker_name(f.worker_name),
                     canonical_worker_key |-> f.key]
               ELSE [profiles[existing] EXCEPT
                     !.job_category = f.category, !.score = <<f.score>>, !.reviewer = f.reviewer,
                     !.notes = f.note, !.rated_at = f.rated_at,
                     !.external_employee_id = f.external_employee_id,
                     !.canonical_name = normalize_worker_name(f.worker_name),
                     !.canonical_worker_key = f.key]
        rating_id == seq.ratings + 1
    IN  IF \/ existing # NoMatch /\ ForeignKeyViolation(profiles, existing)
           \/ (existing = NoMatch \/ existing \in DOMAIN profiles)
              /\ UniqueViolation(profiles, worker_id, row)
        THEN \* the with-block rolls back; except sqlite3.IntegrityError answers 409
             /\ RespondFor("submit_rating", 409, "IntegrityError", 0, 0,
                           f.worker_name, f.external_employee_id)
             /\ UNCHANGED store
        ELSE /\ profiles' = (worker_id :> row) @@ profiles
             /\ ratings' = ratings \cup
                   {RatingRow(rating_id, worker_id, f.category, f.score, f.reviewer, f.note,
                              f.rated_at)}
             /\ history' = append_profile_history_entry(history, seq.history + 1, worker_id,
                               f.category, f.score, RatingLoggedNote(f.reviewer, f.note),
                               f.rated_at)
             /\ notes' = notes
             /\ seq' = [seq EXCEPT !.profiles = IF existing = NoMatch THEN worker_id ELSE @,
                                   !.ratings = rating_id, !.history = @ + 1]
             /\ IF publishes
                THEN /\ publish_change_event(ChangeEvent(worker_id, "submit_rating"))
                     /\ Answer("submit_rating", IF existing = NoMatch THEN 201 ELSE 200, "",
                               worker_id, rating_id, f.worker_name, f.external_employee_id)
                ELSE UNCHANGED <<response, subscribers>>

\* The whole of it in one step
SubmitTransaction(f, existing) == SubmitWith(f, existing, TRUE)

\* TRUE iff the handler answers 400 before it calls the resolver
SubmitRejected(workerName, payload) ==
    \/ validate_rating_payload(workerName, payload, TRUE)
    \/ validate_allowed_rating_values(PayloadGet(payload.category, <<>>), payload.selectedCriteria)

SubmitRating(workerName, employeeId, payload, now) ==
    /\ Tick
    /\ UNCHANGED catalog
    /\ IF SubmitRejected(workerName, payload)
       THEN /\ Respond("submit_rating", 400, "", 0, 0)
            /\ UNCHANGED store
       ELSE LET f == SubmitFields(workerName, employeeId, payload, now)
            IN  SubmitTransaction(f, find_profile_by_rating_identity(
                                         profiles, f.worker_name, f.key, f.external_employee_id))

\* ------------------------------------------------------------------------
\* POST /api/profiles on concurrent threads.  sqlite3 runs each SELECT of the
\* resolver in autocommit; the first INSERT / UPDATE opens the transaction, which
\* SQLite serializes against the other connection's and makes visible at commit.
\* ------------------------------------------------------------------------
BeginSubmit(t, workerName, employeeId, payload, now) ==
    /\ threads[t].pc \in {"idle", "done"}
    /\ ops < MaxOps
    /\ ops' = ops + 1
    /\ UNCHANGED <<store, catalog, streams>>
    /\ IF SubmitRejected(workerName, payload)
       THEN /\ Respond("submit_rating", 400, "", 0, 0)
            /\ threads' = [threads EXCEPT ![t] = [IdleThread EXCEPT !.pc = "done", !.status = 400]]
       ELSE /\ UNCHANGED <<response, subscribers>>
            /\ threads' = [threads EXCEPT ![t] =
                  [IdleThread EXCEPT !.pc = "key",
                                     !.fields = SubmitFields(workerName, employeeId, payload, now)]]

\* No stored profile has the name, the employee id or the key of the request
BrandNew(P, f) ==
    \A i \in DOMAIN P :
        /\ P[i].canonical_name # normalize_worker_name(f.worker_name)
        /\ P[i].canonical_worker_key # f.key
        /\ f.external_employee_id # NULL => P[i].external_employee_id # f.external_employee_id

LookupKey(t) ==
    /\ threads[t].pc = "key"
    /\ UNCHANGED <<store, catalog, response, ops, subscribers, streams>>
    /\ LET f == threads[t].fields
           existing == key_lookup(profiles, f.key)
       IN  threads' = [threads EXCEPT ![t] =
              [@ EXCEPT !.existing = existing,
                        !.brand_new = BrandNew(profiles, f),
                        !.pc = IF existing = NoMatch /\ f.external_employee_id = NULL
                               THEN "name" ELSE "write"]]

LookupName(t) ==
    /\ threads[t].pc = "name"
    /\ UNCHANGED <<store, catalog, response, ops, subscribers, streams>>
    /\ threads' = [threads EXCEPT ![t] =
          [@ EXCEPT !.existing = name_lookup(profiles, threads[t].fields.worker_name),
                    !.pc = "write"]]

CommitSubmit(t) ==
    /\ threads[t].pc = "write"
    /\ UNCHANGED <<catalog, ops, streams>>
    /\ SubmitTransaction(threads[t].fields, threads[t].existing)
    /\ threads' = [threads EXCEPT ![t] = [@ EXCEPT !.pc = "done", !.status = response'.status]]

\* ------------------------------------------------------------------------
\* History entries and profile notes of a profile payload
\* ------------------------------------------------------------------------
\* payload.get('historyEntries', ...) or []  (a value that is no list passes through)
ListItems(list) == IF list.kind = "list" THEN list.items ELSE <<>>

\* TRUE iff validate_history_entries returns an error message
validate_history_entries(entries) ==
    \E i \in DOMAIN entries :
        \/ Strip(PyStr(PayloadGet(entries[i].category, <<>>))) = <<>>
        \/ ScoreRejected(entries[i].score)

\* TRUE iff validate_profile_notes returns an error message
validate_profile_notes(note_entries) ==
    \E i \in DOMAIN note_entries :
        Strip(PyStr(PayloadGet(note_entries[i].note, <<>>))) = <<>>

\* TRUE iff validate_profile_payload returns an error message
validate_profile_payload(payload) ==
    \/ Len(Strip(PyStr(PayloadGet(payload.name, <<>>)))) < 2
    \/ payload.historyEntries.kind = "other"
    \/ payload.profileNotes.kind = "other"
    \/ validate_profile_notes(ListItems(payload.profileNotes))
    \/ validate_history_entries(ListItems(payload.historyEntries))

\* Mutant: inserts the entries without the DELETE that precedes them
insert_profile_history(H, worker_id, entries, last_id, now) ==
    H \cup
    {HistoryRow(last_id + i, worker_id,
                Strip(PyStr(PayloadGet(entries[i].category, NULL))),
                entries[i].score[1],
                LET note == Strip(PyStr(PayloadGet(entries[i].note, <<>>)))
                IN  IF note = <<>> THEN NULL ELSE note,
                IF entries[i].createdAt # 0 THEN entries[i].createdAt ELSE now)
       : i \in DOMAIN entries}

replace_profile_history(H, worker_id, entries, last_id, now) ==
    {h \in H : h.worker_id # worker_id} \cup
    {HistoryRow(last_id + i, worker_id,
                Strip(PyStr(PayloadGet(entries[i].category, NULL))),
                entries[i].score[1],
                LET note == Strip(PyStr(PayloadGet(entries[i].note, <<>>)))
                IN  IF note = <<>> THEN NULL ELSE note,
                IF entries[i].createdAt # 0 THEN entries[i].createdAt ELSE now)
       : i \in DOMAIN entries}

replace_profile_notes(N, worker_id, note_entries, last_id, now) ==
    {n \in N : n.worker_id # worker_id} \cup
    {[id |-> last_id + i, worker_id |-> worker_id,
      note |-> Strip(PyStr(PayloadGet(note_entries[i].note, NULL))),
      created_at |-> IF note_entries[i].createdAt # 0 THEN note_entries[i].createdAt ELSE now]
       : i \in DOMAIN note_entries}

\* ------------------------------------------------------------------------
\* POST /api/profiles/create  (createOrUpdateProfile)
\* ------------------------------------------------------------------------
CreateProfile(payload, now) ==
    /\ Tick
    /\ UNCHANGED <<catalog, ratings>>
    /\ IF validate_profile_payload(payload)
       THEN /\ Respond("create_profile", 400, "", 0, 0)
            /\ UNCHANGED <<profiles, history, notes, seq>>
       ELSE
       LET worker_name == Strip(PyStr(PayloadGet(payload.name, NULL)))
           external_employee_id == normalize_employee_id(PayloadGet(payload.externalEmployeeId, NULL))
           key == canonical_worker_key(worker_name, external_employee_id)
           profile_status == Strip(PyStr(PayloadGet(payload.status, NULL)))
           background_info == Strip(PyStr(PayloadGet(payload.background, <<>>)))
           history_entries == ListItems(payload.historyEntries)
           profile_notes == ListItems(payload.profileNotes)
           existing == find_profile_by_rating_identity(profiles, worker_name, key, external_employee_id)
           worker_id == IF existing = NoMatch THEN seq.profiles + 1 ELSE existing
           row == IF existing = NoMatch
                  THEN [id |-> worker_id, name |-> worker_name, job_category |-> NULL,
                        score |-> <<>>, reviewer |-> NULL, notes |-> NULL,
                        rated_at |-> 0, profile_status |-> profile_status,
                        background_info |-> background_info,
                        external_employee_id |-> external_employee_id,
                        canonical_name |-> normalize_worker_name(worker_name),
                        canonical_worker_key |-> key]
                  ELSE [profiles[existing] EXCEPT
                        !.profile_status = profile_status, !.background_info = background_info,
                        !.external_employee_id = external_employee_id,
                        !.canonical_name = normalize_worker_name(worker_name),
                        !.canonical_worker_key = key]
       IN  IF UniqueViolation(profiles, worker_id, row)
           THEN /\ RespondFor("create_profile", 409, "IntegrityError", 0, 0,
                              worker_name, external_employee_id)
                /\ UNCHANGED <<profiles, history, notes, seq>>
           ELSE /\ profiles' = (worker_id :> row) @@ profiles
                /\ history' = replace_profile_history(history, worker_id, history_entries, seq.history, now)
                /\ notes' = replace_profile_notes(notes, worker_id, profile_notes, seq.notes, now)
                /\ seq' = [seq EXCEPT !.profiles = IF existing = NoMatch THEN worker_id ELSE @,
                                      !.history = @ + Len(history_entries),
                                      !.notes = @ + Len(profile_notes)]
                /\ publish_change_event(ChangeEvent(worker_id, "create_profile"))
                /\ Answer("create_profile", IF existing = NoMatch THEN 201 ELSE 200, "",
                          worker_id, 0, worker_name, external_employee_id)

\* ------------------------------------------------------------------------
\* POST /api/profiles/{id}/ratings  (addRatingToProfile)
\* ------------------------------------------------------------------------
\* The handler from its first INSERT to the end of the with-block, for a profile
\* that its SELECT found.  When the row has gone since, the INSERT is refused and
\* the exception leaves the handler, which has no except clause
AddRatingTransaction(worker_id, payload, now) ==
    LET category == Strip(PyStr(PayloadGet(payload.category, NULL)))
        score == payload.score[1]
        reviewer == Strip(PyStr(PayloadGet(payload.reviewer, NULL)))
        note == Strip(PyStr(PayloadGet(payload.note, <<>>)))
        rated_at == IF payload.ratedAt # 0 THEN payload.ratedAt ELSE now
        rating_id == seq.ratings + 1
    IN  IF ForeignKeyViolation(profiles, worker_id)
        THEN /\ Respond("add_rating", 0, "IntegrityError", 0, 0)
             /\ UNCHANGED store
        ELSE /\ ratings' = ratings \cup
                   {RatingRow(rating_id, worker_id, category, score, reviewer, note, rated_at)}
             /\ history' = append_profile_history_entry(history, seq.history + 1, worker_id,
                               category, score, RatingLoggedNote(reviewer, note), rated_at)
             /\ profiles' = [profiles EXCEPT ![worker_id] =
                               [@ EXCEPT !.job_category = category, !.score = <<score>>,
                                         !.reviewer = reviewer, !.notes = note,
                                         !.rated_at = rated_at]]
             /\ notes' = notes
             /\ seq' = [seq EXCEPT !.ratings = rating_id, !.history = @ + 1]
             /\ publish_change_event(ChangeEvent(worker_id, "add_rating"))
             /\ Answer("add_rating", 201, "", worker_id, rating_id, NULL, NULL)

\* The whole request with no other request between its SELECT and its commit
AddRating(worker_id, payload, now) ==
    /\ Tick
    /\ UNCHANGED catalog
    /\ IF validate_rating_payload(ABSENT, payload, FALSE)
       THEN /\ Respond("add_rating", 400, "", 0, 0)
            /\ UNCHANGED store
       ELSE IF worker_id \notin DOMAIN profiles
       THEN /\ Respond("add_rating", 404, "", 0, 0)
            /\ UNCHANGED store
       ELSE IF validate_allowed_rating_values(PayloadGet(payload.category, <<>>), payload.selectedCriteria)
       THEN /\ Respond("add_rating", 400, "", 0, 0)
            /\ UNCHANGED store
       ELSE AddRatingTransaction(worker_id, payload, now)

\* The request on a thread of the server: the SELECT of `existing` runs in
\* autocommit, so another connection can commit between it and the INSERT.  A
\* thread between the two has pc "insert_rating" and its request in fields
BeginAddRating(t, worker_id, payload, now) ==
    /\ threads[t].pc \in {"idle", "done"}
    /\ ops < MaxOps
    /\ ops' = ops + 1
    /\ UNCHANGED <<store, catalog, streams>>
    /\ IF validate_rating_payload(ABSENT, payload, FALSE)
       THEN /\ Respond("add_rating", 400, "", 0, 0)
            /\ threads' = [threads EXCEPT ![t] = [IdleThread EXCEPT !.pc = "done", !.status = 400]]
       ELSE IF worker_id \notin DOMAIN profiles
       THEN /\ Respond("add_rating", 404, "", 0, 0)
            /\ threads' = [threads EXCEPT ![t] = [IdleThread EXCEPT !.pc = "done", !.status = 404]]
       ELSE IF validate_allowed_rating_values(PayloadGet(payload.category, <<>>), payload.selectedCriteria)
       THEN /\ Respond("add_rating", 400, "", 0, 0)
            /\ threads' = [threads EXCEPT ![t] = [IdleThread EXCEPT !.pc = "done", !.status = 400]]
       ELSE /\ UNCHANGED <<response, subscribers>>
            /\ threads' = [threads EXCEPT ![t] =
                  [IdleThread EXCEPT !.pc = "insert_rating",
                                     !.fields = [worker_id |-> worker_id, payload |-> payload,
                                                 now |-> now]]]

CommitAddRating(t) ==
    /\ threads[t].pc = "insert_rating"
    /\ UNCHANGED <<catalog, ops, streams>>
    /\ AddRatingTransaction(threads[t].fields.worker_id, threads[t].fields.payload,
                            threads[t].fields.now)
    /\ threads' = [threads EXCEPT ![t] = [@ EXCEPT !.pc = "done", !.status = response'.status]]

\* ------------------------------------------------------------------------
\* PUT /api/profiles/{id}  (updateProfile)
\* ------------------------------------------------------------------------
\* float(payload.get('score', existing_score)) with the 0.0 default; <<>> is None
UpdateScore(payload_score, existing_score) ==
    IF payload_score = <<>> /\ existing_score = <<>> THEN <<0>>
    ELSE LET value == IF payload_score = <<>> THEN existing_score ELSE payload_score
         IN  IF Len(value) = 1 THEN value ELSE <<>>

\* The values of the UPDATE, computed from the row `existing` that the SELECT returned
\* and from the body: a field the body omits is written back as it was read
UpdatedRow(existing, payload, now) ==
    LET name == Strip(PyStr(PayloadGet(payload.name, existing.name)))
        external_employee_id ==
            normalize_employee_id(PayloadGet(payload.externalEmployeeId, existing.external_employee_id))
    IN  [existing EXCEPT
         !.name = name,
         !.job_category = Strip(PyStr(PayloadGet(payload.category, StrOrEmpty(existing.job_category)))),
         !.score = UpdateScore(payload.score, existing.score),
         !.reviewer = Strip(PyStr(PayloadGet(payload.reviewer, StrOrEmpty(existing.reviewer)))),
         !.notes = Strip(PyStr(PayloadGet(payload.note, StrOrEmpty(existing.notes)))),
         !.rated_at = IF payload.ratedAt # 0 THEN payload.ratedAt
                      ELSE IF existing.rated_at # 0 THEN existing.rated_at ELSE now,
         !.profile_status =
             Strip(PyStr(PayloadGet(payload.status, StrOrEmpty(existing.profile_status)))),
         !.background_info =
             Strip(PyStr(PayloadGet(payload.background, StrOrEmpty(existing.background_info)))),
         !.external_employee_id = external_employee_id,
         !.canonical_name = normalize_worker_name(name),
         !.canonical_worker_key = canonical_worker_key(name, external_employee_id)]

\* The handler from the line after its SELECT to its answer: the checks, then the
\* transaction that the UPDATE opens and the with-block commits or rolls back
WriteUpdate(profile_id, payload, now, row) ==
    LET name == row.name
        external_employee_id == row.external_employee_id
        category == row.job_category
        reviewer == row.reviewer
        note == row.notes
        rated_at == row.rated_at
        score == row.score
        history_entries == ListItems(payload.historyEntries)
        profile_notes == ListItems(payload.profileNotes)
        log_rating == payload.logRating
        rating_id == seq.ratings + 1
        logged == IF log_rating THEN 1 ELSE 0
    IN  IF payload.historyEntries.kind = "other"
        THEN \* validate_history_entries iterates a value that is no list of dicts
             /\ Respond("update_profile", 0, "AttributeError", 0, 0)
             /\ UNCHANGED store
        ELSE IF validate_history_entries(history_entries)
        THEN /\ Respond("update_profile", 400, "", 0, 0)
             /\ UNCHANGED store
        ELSE IF payload.profileNotes.kind = "other"
        THEN /\ Respond("update_profile", 0, "AttributeError", 0, 0)
             /\ UNCHANGED store
        ELSE IF \/ validate_profile_notes(profile_notes)
                \/ Len(name) < 2
                \/ ScoreRejected(score)
                \/ validate_allowed_rating_values(category, payload.selectedCriteria)
        THEN /\ Respond("update_profile", 400, "", 0, 0)
             /\ UNCHANGED store
        ELSE IF ForeignKeyViolation(profiles, profile_id)
        THEN \* the row has gone since the SELECT: the UPDATE changes no row, the first
             \* INSERT of a rating, history entry or note is refused, and with none of
             \* them build_profile(connection, None) raises TypeError; the with-block
             \* rolls back
             /\ Respond("update_profile", 0,
                        IF log_rating \/ history_entries # <<>> \/ profile_notes # <<>>
                        THEN "IntegrityError" ELSE "TypeError", 0, 0)
             /\ UNCHANGED store
        ELSE IF UniqueViolation(profiles, profile_id, row)
        THEN \* no except clause: the with-block rolls back and the exception leaves do_PUT
             /\ RespondFor("update_profile", 0, "IntegrityError", profile_id, 0,
                           name, external_employee_id)
             /\ UNCHANGED store
        ELSE /\ profiles' = [profiles EXCEPT ![profile_id] = row]
             /\ ratings' = IF log_rating
                           THEN ratings \cup {RatingRow(rating_id, profile_id, category, score[1],
                                                        reviewer, note, rated_at)}
                           ELSE ratings
             /\ history' = replace_profile_history(
                              IF log_rating
                              THEN append_profile_history_entry(history, seq.history + 1, profile_id,
                                       category, score[1], RatingLoggedNote(reviewer, note), rated_at)
                              ELSE history,
                              profile_id, history_entries, seq.history + logged, now)
             /\ notes' = replace_profile_notes(notes, profile_id, profile_notes, seq.notes, now)
             /\ seq' = [seq EXCEPT !.ratings = @ + logged,
                                   !.history = @ + logged + Len(history_entries),
                                   !.notes = @ + Len(profile_notes)]
             /\ publish_change_event(ChangeEvent(profile_id, "update_profile"))
             /\ Answer("update_profile", 200, "", profile_id,
                       IF log_rating THEN rating_id ELSE 0, name, external_employee_id)

UpdateTransaction(profile_id, payload, now, existing) ==
    WriteUpdate(profile_id, payload, now, UpdatedRow(existing, payload, now))

\* The whole request with no other request between its SELECT and its commit
UpdateProfile(profile_id, payload, now) ==
    /\ Tick
    /\ UNCHANGED catalog
    /\ IF profile_id \notin DOMAIN profiles
       THEN /\ Respond("update_profile", 404, "", 0, 0)
            /\ UNCHANGED store
       ELSE UpdateTransaction(profile_id, payload, now, profiles[profile_id])

\* The request on a thread of the server.  The SELECT that reads `existing` runs in
\* autocommit (sqlite3 opens a transaction at the first INSERT / UPDATE / DELETE
\* only), so the other connection can commit between it and the UPDATE.  A thread
\* in the middle of an update has pc "write", its request in fields, and the row
\* it read in existing.
BeginUpdate(t, profile_id, payload, now) ==
    /\ threads[t].pc \in {"idle", "done"}
    /\ ops < MaxOps
    /\ ops' = ops + 1
    /\ UNCHANGED <<store, catalog, streams>>
    /\ IF profile_id \notin DOMAIN profiles
       THEN /\ Respond("update_profile", 404, "", 0, 0)
            /\ threads' = [threads EXCEPT ![t] = [IdleThread EXCEPT !.pc = "done", !.status = 404]]
       ELSE /\ UNCHANGED <<response, subscribers>>
            /\ threads' = [threads EXCEPT ![t] =
                  [IdleThread EXCEPT !.pc = "write",
                                     !.fields = [profile_id |-> profile_id, payload |-> payload,
                                                 now |-> now],
                                     !.existing = profiles[profile_id]]]

CommitUpdate(t) ==
    /\ threads[t].pc = "write"
    /\ UNCHANGED <<catalog, ops, streams>>
    /\ UpdateTransaction(threads[t].fields.profile_id, threads[t].fields.payload,
                         threads[t].fields.now, threads[t].existing)
    /\ threads' = [threads EXCEPT ![t] = [@ EXCEPT !.pc = "done", !.status = response'.status]]

\* ------------------------------------------------------------------------
\* POST /api/profiles/merge  (mergeProfiles)
\* ------------------------------------------------------------------------
\* Mutant: the merge without its UPDATE ... SET worker_id = ? WHERE worker_id = ?
keep_owner(rows, source_id, target_id) == rows

Reparent(rows, source_id, target_id) ==
    {IF r.worker_id = source_id THEN [r EXCEPT !.worker_id = target_id] ELSE r : r \in rows}

\* Mutant: the rows that stay take the latest-rating snapshot of the deleted row
DeleteProfileRowKeepingSnapshot(P, id) ==
    [i \in DOMAIN P \ {id} |->
        [P[i] EXCEPT !.job_category = P[id].job_category, !.score = P[id].score,
                     !.reviewer = P[id].reviewer, !.notes = P[id].notes,
                     !.rated_at = P[id].rated_at]]

\* DELETE FROM worker_profiles WHERE id = ?
DeleteProfileRow(P, id) == [i \in DOMAIN P \ {id} |-> P[i]]

\* Mutant: child tables whose foreign key is ON DELETE SET NULL (0 stands for NULL)
cascade_set_null(rows, P) ==
    {IF r.worker_id \in DOMAIN P THEN r ELSE [r EXCEPT !.worker_id = 0] : r \in rows}

\* Mutant: child tables whose foreign key has no ON DELETE CASCADE
no_cascade(rows, P) == rows

\* ON DELETE CASCADE: the child rows left once their profile is gone
Cascade(rows, P) == {r \in rows : r.worker_id \in DOMAIN P}

MergeProfiles(source_id, target_id) ==
    /\ Tick
    /\ UNCHANGED <<catalog, seq>>
    /\ IF source_id = 0 \/ target_id = 0 \/ source_id = target_id
       THEN /\ Respond("merge", 400, "", 0, 0)
            /\ UNCHANGED <<profiles, ratings, history, notes>>
       ELSE IF source_id \notin DOMAIN profiles \/ target_id \notin DOMAIN profiles
       THEN /\ Respond("merge", 404, "", 0, 0)
            /\ UNCHANGED <<profiles, ratings, history, notes>>
       ELSE /\ profiles' = DeleteProfileRow(profiles, source_id)
            /\ ratings' = Cascade(Reparent(ratings, source_id, target_id), profiles')
            /\ history' = Cascade(Reparent(history, source_id, target_id), profiles')
            /\ notes' = Cascade(Reparent(notes, source_id, target_id), profiles')
            /\ publish_change_event(ChangeEvent(target_id, "merge"))
            /\ Answer("merge", 200, "", target_id, 0, NULL, NULL)

\* ------------------------------------------------------------------------
\* DELETE /api/profiles, /api/profiles/{id}, /api/profiles/{id}/ratings|notes/{entry}
\* ------------------------------------------------------------------------
ClearAll ==
    /\ Tick
    /\ UNCHANGED <<catalog, seq>>
    /\ profiles' = <<>>
    /\ ratings' = {}
    /\ history' = {}
    /\ notes' = {}
    /\ publish_change_event([action |-> "clear_all"])
    /\ Answer("clear_all", 204, "", 0, 0, NULL, NULL)

DeleteProfile(worker_id) ==
    /\ Tick
    /\ UNCHANGED <<catalog, seq>>
    /\ IF worker_id \notin DOMAIN profiles
       THEN /\ Respond("delete_profile", 404, "", 0, 0)
            /\ UNCHANGED <<profiles, ratings, history, notes>>
       ELSE /\ profiles' = DeleteProfileRow(profiles, worker_id)
            /\ ratings' = Cascade(ratings, profiles')
            /\ history' = Cascade(history, profiles')
            /\ notes' = Cascade(notes, profiles')
            /\ publish_change_event(ChangeEvent(worker_id, "delete_profile"))
            /\ Answer("delete_profile", 204, "", worker_id, 0, NULL, NULL)

\* Mutant: DELETE FROM worker_ratings WHERE worker_id = ?, whatever the id of the row
delete_ratings_of_profile(rows, worker_id, rating_id) ==
    {r \in rows : r.worker_id # worker_id}

\* Mutant: DELETE FROM worker_ratings WHERE id = ?, whoever owns the row
delete_rating_of_any_profile(rows, worker_id, rating_id) ==
    {r \in rows : r.id # rating_id}

\* DELETE FROM <table> WHERE id = ? AND worker_id = ?
delete_rating(rows, worker_id, rating_id) ==
    {r \in rows : ~(r.id = rating_id /\ r.worker_id = worker_id)}

delete_profile_note(rows, worker_id, note_id) ==
    {r \in rows : ~(r.id = note_id /\ r.worker_id = worker_id)}

DeleteRating(worker_id, entry_id) ==
    /\ Tick
    /\ UNCHANGED <<catalog, seq, profiles, history, notes>>
    /\ IF worker_id \notin DOMAIN profiles
          \/ delete_rating(ratings, worker_id, entry_id) = ratings
       THEN /\ Respond("delete_rating", 404, "", 0, 0)
            /\ UNCHANGED ratings
       ELSE /\ ratings' = delete_rating(ratings, worker_id, entry_id)
            /\ publish_change_event(ChangeEvent(worker_id, "delete_rating"))
            /\ Answer("delete_rating", 200, "", worker_id, 0, NULL, NULL)

DeleteNote(worker_id, entry_id) ==
    /\ Tick
    /\ UNCHANGED <<catalog, seq, profiles, history, ratings>>
    /\ IF worker_id \notin DOMAIN profiles
          \/ delete_profile_note(notes, worker_id, entry_id) = notes
       THEN /\ Respond("delete_note", 404, "", 0, 0)
            /\ UNCHANGED notes
       ELSE /\ notes' = delete_profile_note(notes, worker_id, entry_id)
            /\ publish_change_event(ChangeEvent(worker_id, "delete_note"))
            /\ Answer("delete_note", 200, "", worker_id, 0, NULL, NULL)

\* ------------------------------------------------------------------------
\* GET /api/events: the stream of one client.  pc is "none" (no request), "hello"
\* (registered, before ': connected' is written), "wait" (in event_queue.get) or
\* "closed" (the finally clause has run).  conn is "open", "closing" (the peer has
\* closed: the next write is still accepted and answered with a reset) or "broken"
\* (a write raises BrokenPipeError / ConnectionResetError).
\* ------------------------------------------------------------------------
Subscribe(s) ==
    /\ streams[s].pc = "none"
    /\ subscribers' = (s :> <<>>) @@ subscribers
    /\ streams' = [streams EXCEPT ![s].pc = "hello"]
    /\ UNCHANGED <<store, catalog, response, ops, threads>>

\* The peer goes away; nothing tells the server
Disconnect(s) ==
    /\ streams[s].pc \in {"hello", "wait"}
    /\ streams[s].conn = "open"
    /\ \E conn \in {"closing", "broken"} : streams' = [streams EXCEPT ![s].conn = conn]
    /\ UNCHANGED <<store, catalog, response, ops, threads, subscribers>>

\* EVENT_SUBSCRIBERS.discard(event_queue)
discard(registry, q) == [k \in DOMAIN registry \ {q} |-> registry[k]]

\* self.wfile.write(...) and flush on the connection of s, after `queue` is what is
\* left of its queue: the loop goes on, or the exception ends it and the finally
\* clause discards the queue
WriteTo(s, queue) ==
    IF streams[s].conn = "broken"
    THEN /\ subscribers' = discard(subscribers, s)
         /\ streams' = [streams EXCEPT ![s].pc = "closed"]
    ELSE /\ subscribers' = [subscribers EXCEPT ![s] = queue]
         /\ streams' = [streams EXCEPT ![s].pc = "wait",
                                       ![s].conn = IF @ = "closing" THEN "broken" ELSE @]

WriteConnected(s) ==
    /\ streams[s].pc = "hello"
    /\ WriteTo(s, subscribers[s])
    /\ UNCHANGED <<store, catalog, response, ops, threads>>

\* event_queue.get(timeout=20) waits 20 seconds at most
KeepaliveTimeout == 20

\* Mutant: event_queue.get() with no timeout returns only when there is a message
GetReturnsOnMessage(queue) == queue # <<>>

\* get(timeout=...) returns a message, or raises queue.Empty when the time is up
GetReturns(queue) == queue # <<>> \/ KeepaliveTimeout > 0

\* One turn of the loop: the message at the head of the queue, or a keepalive, is
\* written to the connection
Deliver(s) ==
    /\ streams[s].pc = "wait"
    /\ GetReturns(subscribers[s])
    /\ WriteTo(s, IF subscribers[s] # <<>> THEN Tail(subscribers[s]) ELSE <<>>)
    /\ UNCHANGED <<store, catalog, response, ops, threads>>

\* ------------------------------------------------------------------------
\* DELETE /api/profiles/{id} on a thread of the server, publish_change_event step by
\* step.  pc is "publish" (committed, before the registry is copied under the
\* lock), "put" (putting the message on the queues of the copy) or "done".
\* ------------------------------------------------------------------------
BeginDelete(t, worker_id) ==
    /\ threads[t].pc \in {"idle", "done"}
    /\ ops < MaxOps
    /\ ops' = ops + 1
    /\ UNCHANGED <<catalog, seq, streams>>
    /\ IF worker_id \notin DOMAIN profiles
       THEN /\ Respond("delete_profile", 404, "", 0, 0)
            /\ UNCHANGED <<profiles, ratings, history, notes>>
            /\ threads' = [threads EXCEPT ![t] = [IdleThread EXCEPT !.pc = "done", !.status = 404]]
       ELSE /\ profiles' = DeleteProfileRow(profiles, worker_id)
            /\ ratings' = Cascade(ratings, profiles')
            /\ history' = Cascade(history, profiles')
            /\ notes' = Cascade(notes, profiles')
            /\ UNCHANGED <<response, subscribers>>
            /\ threads' = [threads EXCEPT ![t] =
                  [IdleThread EXCEPT !.pc = "publish",
                                     !.fields = [worker_id |-> worker_id,
                                                 message |-> ChangeEvent(worker_id, "delete_profile"),
                                                 copy |-> {}]]]

\* with EVENT_SUBSCRIBERS_LOCK: subscribers = list(EVENT_SUBSCRIBERS)
CopySubscribers(t) ==
    /\ threads[t].pc = "publish"
    /\ threads' = [threads EXCEPT ![t].pc = "put", ![t].fields.copy = DOMAIN subscribers]
    /\ UNCHANGED <<store, catalog, response, ops, subscribers, streams>>

\* subscriber.put(message) for the next queue of the copy; a queue that has been
\* discarded since is no longer read by anyone
PutMessage(t, q) ==
    /\ threads[t].pc = "put"
    /\ q \in threads[t].fields.copy
    /\ q \in DOMAIN subscribers => ~Full(subscribers[q])
    /\ subscribers' = IF q \in DOMAIN subscribers
                      THEN [subscribers EXCEPT ![q] = Append(@, threads[t].fields.message)]
                      ELSE subscribers
    /\ threads' = [threads EXCEPT ![t].fields.copy = @ \ {q}]
    /\ UNCHANGED <<store, catalog, response, ops, streams>>

\* self._send_no_content()
SendNoContent(t) ==
    /\ threads[t].pc = "put"
    /\ threads[t].fields.copy = {}
    /\ Answer("delete_profile", 204, "", threads[t].fields.worker_id, 0, NULL, NULL)
    /\ threads' = [threads EXCEPT ![t].pc = "done", ![t].status = 204]
    /\ UNCHANGED <<store, catalog, ops, subscribers, streams>>

\* ------------------------------------------------------------------------
\* GET /api/profiles/{id}  (getProfile)
\* ------------------------------------------------------------------------
GetProfile(profile_id) ==
    /\ Tick
    /\ UNCHANGED <<catalog, store>>
    /\ IF profile_id \notin DOMAIN profiles
       THEN Respond("get_profile", 404, "", 0, 0)
       ELSE Respond("get_profile", 200, "", profile_id, 0)

\* ------------------------------------------------------------------------
\* Requests
\* ------------------------------------------------------------------------
\* (workerName, externalEmployeeId) pairs as callers send them
IdentityInputs ==
    {<<NameAB, NULL>>, <<NameAB, EidE1>>,
     <<NameVariant, NULL>>, <<NameVariant, EidVariant>>, <<NameVariant, EidE2>>,
     <<NameLower, ABSENT>>,
     <<NameCy, EidE1>>,
     <<NameShort, NULL>>}

HistoryEntry == [category |-> Picker, score |-> <<3>>, note |-> ABSENT, createdAt |-> 0]
NoteEntry == [note |-> Ok, createdAt |-> 1]

NoPayload ==
    [name |-> ABSENT, externalEmployeeId |-> ABSENT, category |-> ABSENT, score |-> <<>>,
     reviewer |-> ABSENT, note |-> ABSENT, status |-> ABSENT, background |-> ABSENT,
     ratedAt |-> 0, historyEntries |-> Criteria("absent", <<>>),
     profileNotes |-> Criteria("absent", <<>>), logRating |-> FALSE,
     selectedCriteria |-> Criteria("absent", <<>>)]

WithIdentity(payload, identity) ==
    [payload EXCEPT !.name = identity[1], !.externalEmployeeId = identity[2]]

\* Bodies of POST /api/profiles/create
CreateInputs ==
    {WithIdentity(NoPayload, identity) : identity \in IdentityInputs}
    \cup {WithIdentity(p, <<NameAB, ABSENT>>) : p \in
            {[NoPayload EXCEPT !.historyEntries = Criteria("list", <<HistoryEntry>>),
                               !.profileNotes = Criteria("list", <<NoteEntry>>),
                               !.status = Ok],
             [NoPayload EXCEPT !.historyEntries = Criteria("other", <<>>)],
             [NoPayload EXCEPT !.profileNotes = Criteria("other", <<>>)],
             [NoPayload EXCEPT !.historyEntries =
                 Criteria("list", <<[HistoryEntry EXCEPT !.category = ABSENT]>>)],
             [NoPayload EXCEPT !.historyEntries =
                 Criteria("list", <<[HistoryEntry EXCEPT !.score = <<7>>]>>)],
             [NoPayload EXCEPT !.profileNotes =
                 Criteria("list", <<[NoteEntry EXCEPT !.note = <<" ">>]>>)]}}

\* Bodies of PUT /api/profiles/{id}
UpdateInputs ==
    {[NoPayload EXCEPT !.name = NameAB],
     [NoPayload EXCEPT !.name = NameCy],
     [NoPayload EXCEPT !.externalEmployeeId = EidE1],
     [NoPayload EXCEPT !.externalEmployeeId = NULL],
     [NoPayload EXCEPT !.logRating = TRUE],
     [NoPayload EXCEPT !.logRating = TRUE, !.category = Warehouse, !.score = <<-2>>,
                       !.reviewer = Sam, !.note = Ok, !.ratedAt = 1],
     [NoPayload EXCEPT !.historyEntries = Criteria("list", <<HistoryEntry>>),
                       !.profileNotes = Criteria("list", <<NoteEntry>>),
                       !.status = Ok, !.background = Ok]}

MalformedUpdateInputs ==
    {[NoPayload EXCEPT !.name = NameShort],
     [NoPayload EXCEPT !.score = <<6>>],
     [NoPayload EXCEPT !.score = <<0, 0>>],
     [NoPayload EXCEPT !.category = Late],
     [NoPayload EXCEPT !.selectedCriteria = Criteria("list", <<Late>>)],
     [NoPayload EXCEPT !.historyEntries = Criteria("other", <<>>)],
     [NoPayload EXCEPT !.profileNotes = Criteria("other", <<>>)],
     [NoPayload EXCEPT !.profileNotes = Criteria("list", <<[NoteEntry EXCEPT !.note = ABSENT]>>)]}

ProfileIds == 1 .. MaxOps

UpdateProfileInputs ==
    {<<id, payload>> : id \in ProfileIds, payload \in UpdateInputs}
    \cup {<<1, payload>> : payload \in MalformedUpdateInputs}

\* Bodies of POST /api/profiles and POST /api/profiles/{id}/ratings
SubmitInputs ==
    {<<identity, GoodRating>> : identity \in IdentityInputs}
    \cup {<<<<NameAB, NULL>>, r>> : r \in RatingInputs}

AddRatingInputs ==
    {<<id, GoodRating>> : id \in ProfileIds}
    \cup {<<1, r>> : r \in RatingInputs}

Next ==
    \/ \E input \in SubmitInputs, now \in NowValues :
          SubmitRating(input[1][1], input[1][2], input[2], now)
    \/ \E payload \in CreateInputs, now \in NowValues : CreateProfile(payload, now)
    \/ \E input \in AddRatingInputs, now \in NowValues : AddRating(input[1], input[2], now)
    \/ \E input \in UpdateProfileInputs, now \in NowValues :
          UpdateProfile(input[1], input[2], now)
    \/ \E source_id \in 0 .. MaxOps, target_id \in ProfileIds :
          MergeProfiles(source_id, target_id)
    \/ \E id \in ProfileIds : DeleteProfile(id)
    \/ \E id \in ProfileIds, entry \in ProfileIds : DeleteRating(id, entry)
    \/ \E id \in ProfileIds, entry \in ProfileIds : DeleteNote(id, entry)
    \/ ClearAll

Spec == Init /\ [][Next]_vars

\* Identities of the requests that race
RaceIdentities ==
    {<<NameAB, NULL>>, <<NameVariant, NULL>>, <<NameAB, EidE1>>, <<NameVariant, EidVariant>>,
     <<NameCy, EidE1>>, <<NameShort, NULL>>}

NextRace ==
    \/ \E t \in Threads, identity \in RaceIdentities, now \in NowValues :
          BeginSubmit(t, identity[1], identity[2], GoodRating, now)
    \/ \E t \in Threads : LookupKey(t)
    \/ \E t \in Threads : LookupName(t)
    \/ \E t \in Threads : CommitSubmit(t)

SpecRace == Init /\ [][NextRace]_vars

\* Updates that race: each body names one field, and no two of them the same one
UpdateRaceInputs ==
    {[NoPayload EXCEPT !.status = Ok], [NoPayload EXCEPT !.background = Ok],
     [NoPayload EXCEPT !.externalEmployeeId = EidE1]}

NextUpdateRace ==
    \/ \E now \in NowValues : SubmitRating(NameAB, NULL, GoodRating, now)
    \/ \E t \in Threads, id \in {1, 2}, payload \in UpdateRaceInputs, now \in NowValues :
          BeginUpdate(t, id, payload, now)
    \/ \E t \in Threads : CommitUpdate(t)

SpecUpdateRace == Init /\ [][NextUpdateRace]_vars

\* Requests on the records of two profiles: ratings, history entries and notes are
\* written, moved and deleted under the ids 1 and 2 (0 is an id no payload names)
RecordIds == {1, 2}

RecordSubmitInputs ==
    {<<<<NameAB, NULL>>, GoodRating>>, <<<<NameCy, EidE1>>, LateRating>>,
     <<<<NameVariant, EidE2>>, GoodRating>>}

RecordCreateInputs ==
    {WithIdentity([NoPayload EXCEPT !.historyEntries = Criteria("list", <<HistoryEntry>>),
                                    !.profileNotes = Criteria("list", <<NoteEntry>>),
                                    !.status = Ok],
                  <<NameAB, ABSENT>>),
     WithIdentity(NoPayload, <<NameCy, EidE1>>)}

RecordRatingInputs == {GoodRating, LateRating, [GoodRating EXCEPT !.score = <<6>>]}

NextRecords ==
    \/ \E input \in RecordSubmitInputs, now \in NowValues :
          SubmitRating(input[1][1], input[1][2], input[2], now)
    \/ \E payload \in RecordCreateInputs, now \in NowValues : CreateProfile(payload, now)
    \/ \E id \in RecordIds, r \in RecordRatingInputs, now \in NowValues : AddRating(id, r, now)
    \/ \E id \in RecordIds, payload \in UpdateInputs, now \in NowValues :
          UpdateProfile(id, payload, now)
    \/ \E source_id \in {0} \cup RecordIds, target_id \in {0} \cup RecordIds :
          MergeProfiles(source_id, target_id)
    \/ \E id \in RecordIds : DeleteProfile(id)
    \/ \E id \in RecordIds : GetProfile(id)
    \/ \E id \in RecordIds, entry \in RecordIds : DeleteRating(id, entry)
    \/ \E id \in RecordIds, entry \in RecordIds : DeleteNote(id, entry)
    \/ ClearAll

\* A merge or a delete beside an untouched third profile takes four requests: these
\* runs handle RecordOpsExtra requests more than MaxOps
RecordOpsExtra == 1

InitRecords ==
    /\ profiles = <<>>
    /\ ratings = {}
    /\ history = {}
    /\ notes = {}
    /\ seq = [profiles |-> 0, ratings |-> 0, history |-> 0, notes |-> 0]
    /\ catalog = DefaultCatalog
    /\ response = [op |-> "start", status |-> 0, raised |-> "", profileId |-> 0, ratingId |-> 0,
                   name |-> NULL, employeeId |-> NULL]
    /\ ops = 0 - RecordOpsExtra
    /\ threads = [t \in Threads |-> IdleThread]
    /\ subscribers = <<>>
    /\ streams = [s \in Clients |-> NoStream]

SpecRecords == InitRecords /\ [][NextRecords]_vars

\* Requests that publish, with a client on /api/events that reads what they publish
PublishCreateInputs ==
    {WithIdentity(NoPayload, <<NameAB, ABSENT>>), WithIdentity(NoPayload, <<NameShort, ABSENT>>)}

PublishUpdateInputs ==
    {[NoPayload EXCEPT !.status = Ok], [NoPayload EXCEPT !.score = <<6>>],
     [NoPayload EXCEPT !.profileNotes = Criteria("list", <<NoteEntry>>)]}

NextPublish ==
    \/ \E r \in {GoodRating, [GoodRating EXCEPT !.score = <<6>>]}, now \in NowValues :
          SubmitRating(NameCy, EidE1, r, now)
    \/ \E payload \in PublishCreateInputs, now \in NowValues : CreateProfile(payload, now)
    \/ \E id \in RecordIds, r \in {GoodRating, [GoodRating EXCEPT !.score = <<6>>]},
          now \in NowValues : AddRating(id, r, now)
    \/ \E id \in RecordIds, payload \in PublishUpdateInputs, now \in NowValues :
          UpdateProfile(id, payload, now)
    \/ \E source_id \in {0} \cup RecordIds, target_id \in {0} \cup RecordIds : MergeProfiles(source_id, target_id)
    \/ \E id \in RecordIds : DeleteProfile(id)
    \/ \E id \in RecordIds : GetProfile(id)
    \/ \E id \in RecordIds, entry \in RecordIds : DeleteRating(id, entry)
    \/ \E id \in RecordIds, entry \in RecordIds : DeleteNote(id, entry)
    \/ ClearAll
    \/ Subscribe(1)
    \/ WriteConnected(1)
    \/ Deliver(1)

SpecPublish == InitRecords /\ [][NextPublish]_vars

\* The ids the stepwise deletes name: the first profile the table hands out
DeleteIds == {1}

\* Deletes that publish step by step while the clients of /api/events come, read,
\* stay away from their queue, or go
NextEvents ==
    \/ \E now \in NowValues : SubmitRating(NameAB, NULL, GoodRating, now)
    \/ \E t \in Threads, id \in DeleteIds : BeginDelete(t, id)
    \/ \E t \in Threads : CopySubscribers(t)
    \/ \E t \in Threads, q \in Clients : PutMessage(t, q)
    \/ \E t \in Threads : SendNoContent(t)
    \/ \E s \in Clients : Subscribe(s)
    \/ \E s \in Clients : Disconnect(s)
    \/ \E s \in Clients : WriteConnected(s)
    \/ \E s \in Clients : Deliver(s)

SpecEvents == Init /\ [][NextEvents]_vars

\* The scheduler runs every thread that can take a step, so a request that is
\* publishing goes on; nothing is assumed of the clients of /api/events
SpecPublishers ==
    /\ SpecEvents
    /\ \A t \in Threads :
          /\ WF_vars(CopySubscribers(t))
          /\ WF_vars(\E q \in Clients : PutMessage(t, q))
          /\ WF_vars(SendNoContent(t))

\* The scheduler runs the thread of every /api/events request
SpecStreams ==
    /\ SpecEvents
    /\ \A s \in Clients : WF_vars(WriteConnected(s)) /\ WF_vars(Deliver(s))

\* ------------------------------------------------------------------------
\* score_profile_metrics: the analytics of one profile
\* ------------------------------------------------------------------------
\* Scores on the five-point scale and the consistency score are counted in
\* hundredths (350 is 3.50), the two decimals round(x, 2) keeps.

\* most ratings of one profile in the lists that are scored
MaxRatings == 3

Punctuality == <<"P", "u", "n", "c", "t", "u", "a", "l", "i", "t", "y">>

\* the tokens of is_punctuality_category
PunctualityTokens ==
    {<<"p", "u", "n", "c", "t", "u", "a", "l", "i", "t", "y">>,
     <<"a", "t", "t", "e", "n", "d", "a", "n", "c", "e">>,
     <<"t", "i", "m", "e", "l", "i", "n", "e", "s", "s">>,
     <<"l", "a", "t", "e">>}

\* token in s
RECURSIVE Contains(_, _)
Contains(token, s) ==
    /\ Len(token) <= Len(s)
    /\ SubSeq(s, 1, Len(token)) = token \/ Contains(token, Tail(s))

is_punctuality_category(category) ==
    LET normalized == LowerStr(Strip(category))
    IN  \E token \in PunctualityTokens : Contains(token, normalized)

Max(a, b) == IF a >= b THEN a ELSE b
Min(a, b) == IF a <= b THEN a ELSE b

\* A clamp that lets every value through
no_clamp(value, minimum, maximum) == value

clamp(value, minimum, maximum) == Max(minimum, Min(maximum, value))

\* round() of num / den for num >= 0 < den: the nearest integer, and the even one of
\* the two when num / den lies exactly between them (round() is handed the double
\* nearest to the quotient, which in that case lies a hair to one side: the result is
\* one of the same two neighbours)
RoundQuotient(num, den) ==
    LET q == num \div den
        r == num % den
    IN  IF 2 * r < den THEN q
        ELSE IF 2 * r > den THEN q + 1
        ELSE IF q % 2 = 0 THEN q ELSE q + 1

\* to_five_point_scale(num / den), in hundredths: round((clamp(raw, -5, 5) + 5) / 2, 2)
to_five_point_scale(num, den) ==
    RoundQuotient(100 * (clamp(num, 0 - 5 * den, 5 * den) + 5 * den), 2 * den)

\* The sort key of sorted_ratings, (ratedAt or '', id or 0): TRUE iff a goes before b
RatedAtBefore(a, b) == a.ratedAt < b.ratedAt

SortKeyBefore(a, b) ==
    \/ a.ratedAt < b.ratedAt
    \/ a.ratedAt = b.ratedAt /\ a.id < b.id

\* sorted(): entries whose keys are equal keep the order they came in
RECURSIVE InsertSorted(_, _)
InsertSorted(done, entry) ==
    IF done = <<>> THEN <<entry>>
    ELSE IF SortKeyBefore(entry, done[Len(done)])
         THEN Append(InsertSorted(SubSeq(done, 1, Len(done) - 1), entry), done[Len(done)])
         ELSE Append(done, entry)

RECURSIVE sorted(_)
sorted(list) ==
    IF list = <<>> THEN <<>>
    ELSE InsertSorted(sorted(SubSeq(list, 1, Len(list) - 1)), list[Len(list)])

\* [entry for entry in list if test]
RECURSIVE SelectPunctuality(_)
SelectPunctuality(list) ==
    IF list = <<>> THEN <<>>
    ELSE (IF is_punctuality_category(Head(list).category) THEN <<Head(list)>> ELSE <<>>)
         \o SelectPunctuality(Tail(list))

\* punctuality[:3]
oldest_punctuality(sorted_ratings) ==
    LET punctuality == SelectPunctuality(sorted_ratings)
    IN  SubSeq(punctuality, 1, Min(3, Len(punctuality)))

\* punctuality[-3:]
recent_punctuality(sorted_ratings) ==
    LET punctuality == SelectPunctuality(sorted_ratings)
    IN  SubSeq(punctuality, Max(1, Len(punctuality) - 2), Len(punctuality))

late_trend_applied(recent) ==
    Len(recent) = 3 /\ \A i \in DOMAIN recent : recent[i].score <= 0

\* to_five_point_scale(raw_score) of each entry
normalized_scores(sorted_ratings) ==
    [i \in DOMAIN sorted_ratings |-> to_five_point_scale(sorted_ratings[i].score, 1)]

\* 2 if late_trend_applied and is_punctuality_category(category) else 1
multiplier(applied, category) ==
    IF applied /\ is_punctuality_category(category) THEN 2 ELSE 1

\* raw_score * multiplier of each entry
weighted_scores(sorted_ratings, applied) ==
    [i \in DOMAIN sorted_ratings |->
        sorted_ratings[i].score * multiplier(applied, sorted_ratings[i].category)]

\* The counters of a loop that never goes back to 0
RECURSIVE StreaksWithoutReset(_, _, _, _)
StreaksWithoutReset(normalized, i, current_streak, best_streak) ==
    IF i > Len(normalized) THEN [current |-> current_streak, best |-> best_streak]
    ELSE IF normalized[i] >= 350
         THEN StreaksWithoutReset(normalized, i + 1, current_streak + 1,
                                  Max(best_streak, current_streak + 1))
         ELSE StreaksWithoutReset(normalized, i + 1, current_streak, best_streak)

\* The loop's two counters after the entries from position i on
RECURSIVE Streaks(_, _, _, _)
Streaks(normalized, i, current_streak, best_streak) ==
    IF i > Len(normalized) THEN [current |-> current_streak, best |-> best_streak]
    ELSE IF normalized[i] >= 350
         THEN Streaks(normalized, i + 1, current_streak + 1,
                      Max(best_streak, current_streak + 1))
         ELSE Streaks(normalized, i + 1, 0, best_streak)

RECURSIVE Sum(_)
Sum(list) == IF list = <<>> THEN 0 ELSE Head(list) + Sum(Tail(list))

\* int(math.sqrt(m)), by bisection between lo and hi
RECURSIVE SqrtBetween(_, _, _)
SqrtBetween(lo, hi, m) ==
    IF lo = hi THEN lo
    ELSE LET mid == (lo + hi + 1) \div 2
         IN  IF mid * mid <= m THEN SqrtBetween(mid, hi, m) ELSE SqrtBetween(lo, mid - 1, m)

Isqrt(m) == SqrtBetween(0, 46340, m)

\* round(clamp(100 - sqrt(variance) * 20, 0, 100), 2) in hundredths, for normalized
\* scores in hundredths: with d = n * sum(x^2) - sum(x)^2 the deviation is sqrt(d) / n
\* hundredths, so the score is 10000 - sqrt(400 * d) / n rounded to an integer
consistency_score(normalized) ==
    LET n == Len(normalized)
        squares == [i \in DOMAIN normalized |-> normalized[i] * normalized[i]]
        d == n * Sum(squares) - Sum(normalized) * Sum(normalized)
        s == Isqrt(400 * d)
        twice == IF 400 * d - s * s > s THEN 2 * s + 1 ELSE 2 * s
    IN  clamp(10000 - (twice + n) \div (2 * n), 0, 10000)

NoTrend == "No punctuality trend yet"

score_profile_metrics(list) ==
    IF list = <<>>
    THEN [normalizedOverallScore |-> 0, consistencyScore |-> 0, currentPositiveStreak |-> 0,
          bestPositiveStreak |-> 0, lateTrendWeightApplied |-> FALSE, lateTrend |-> NoTrend]
    ELSE LET sorted_ratings == sorted(list)
             recent == recent_punctuality(sorted_ratings)
             applied == late_trend_applied(recent)
             normalized == normalized_scores(sorted_ratings)
             streaks == Streaks(normalized, 1, 0, 0)
             weighted == weighted_scores(sorted_ratings, applied)
             streak_bonus == Min(50, streaks.current * 10)
         IN  [normalizedOverallScore |->
                  clamp(to_five_point_scale(Sum(weighted), Len(weighted)) + streak_bonus,
                        0, 500),
              consistencyScore |-> consistency_score(normalized),
              currentPositiveStreak |-> streaks.current,
              bestPositiveStreak |-> streaks.best,
              lateTrendWeightApplied |-> applied,
              lateTrend |-> IF applied
                            THEN "Always late trend detected; punctuality scores are doubled"
                            ELSE IF recent # <<>> THEN "Punctuality is being monitored"
                                 ELSE NoTrend]

\* fetch_ratings: the ratings of one profile, ORDER BY datetime(rated_at) ASC, id ASC
RatingEntry(row) ==
    [id |-> row.id, category |-> row.job_category, score |-> row.score,
     reviewer |-> row.reviewer, note |-> row.notes, ratedAt |-> row.rated_at]

RECURSIVE OrderByRatedAtAndId(_)
OrderByRatedAtAndId(entries) ==
    IF entries = {} THEN <<>>
    ELSE LET first == CHOOSE e \in entries :
                          \A o \in entries \ {e} :
                              \/ e.ratedAt < o.ratedAt
                              \/ e.ratedAt = o.ratedAt /\ e.id < o.id
         IN  <<first>> \o OrderByRatedAtAndId(entries \ {first})

fetch_ratings(R, worker_id) ==
    OrderByRatedAtAndId({RatingEntry(row) : row \in {r \in R : r.worker_id = worker_id}})

\* The same entries in another order
Reordered(list, order) == [i \in DOMAIN list |-> list[order[i]]]

\* score_profile_metrics applied to the ratings of a profile.  build_profile hands them
\* over in the order of fetch_ratings; the function itself takes them in any order.
\* A behaviour scores one list.
ScoreProfile(profile_id, list) ==
    /\ response.op = "start"
    /\ response' = [op |-> "score_profile_metrics", status |-> 200,
                    profileId |-> profile_id, ratings |-> list,
                    metrics |-> score_profile_metrics(list)]
    /\ UNCHANGED <<store, catalog, ops, threads, subscribers, streams>>

\* The profile whose ratings are scored
ScoredWorker ==
    [id |-> 1, name |-> NameAB, job_category |-> Picker, score |-> <<4>>, reviewer |-> Sam,
     notes |-> <<>>, rated_at |-> 1, profile_status |-> NULL, background_info |-> NULL,
     external_employee_id |-> normalize_employee_id(NULL),
     canonical_name |-> normalize_worker_name(NameAB),
     canonical_worker_key |-> canonical_worker_key(NameAB, normalize_employee_id(NULL))]

\* Raw scores at the two ends of the scale
ScoredScores == {-5, 5}
ScoredTimes == {1, 2}
ScoredCategories == {Picker, Late}

ScoredRatings == [category : ScoredCategories, score : ScoredScores, ratedAt : ScoredTimes]

\* "Punctuality" rated -2 three times, each later than the one before
ThreeLateRatings ==
    [i \in 1 .. 3 |-> [category |-> Punctuality, score |-> -2, ratedAt |-> i]]

\* Four punctuality ratings, the oldest of them a good one
FourPunctualityRatings ==
    <<[category |-> Punctuality, score |-> 5, ratedAt |-> 1],
      [category |-> Punctuality, score |-> 0, ratedAt |-> 2],
      [category |-> Late, score |-> -2, ratedAt |-> 2],
      [category |-> Punctuality, score |-> 0, ratedAt |-> 3]>>

\* Five-point scores 4.0, 4.0, 4.0, 2.0, 4.0
FiveRatings ==
    [i \in 1 .. 5 |-> [category |-> Picker, score |-> IF i = 4 THEN -1 ELSE 3, ratedAt |-> i]]

\* Raw scores at the streak limit (2 is 3.50 on the five-point scale) and below it
StreakLimitRatings ==
    <<[category |-> Picker, score |-> 2, ratedAt |-> 2],
      [category |-> Picker, score |-> 1, ratedAt |-> 1],
      [category |-> Late, score |-> 2, ratedAt |-> 1]>>

RatingLists ==
    UNION {[1 .. n -> ScoredRatings] : n \in 0 .. MaxRatings}
    \cup {ThreeLateRatings, FourPunctualityRatings, FiveRatings, StreakLimitRatings}

\* The rows of worker_ratings for the ratings of a list, in the order they were added
RatingTable(list) ==
    {RatingRow(i, 1, list[i].category, list[i].score, Sam, <<>>, list[i].ratedAt) :
        i \in DOMAIN list}

InitMetrics ==
    /\ profiles = (1 :> ScoredWorker)
    /\ \E list \in RatingLists :
          /\ ratings = RatingTable(list)
          /\ seq = [profiles |-> 1, ratings |-> Len(list), history |-> 0, notes |-> 0]
    /\ history = {}
    /\ notes = {}
    /\ catalog = DefaultCatalog
    /\ response = [op |-> "start", status |-> 0, raised |-> "", profileId |-> 0, ratingId |-> 0,
                   name |-> NULL, employeeId |-> NULL]
    /\ ops = 0
    /\ threads = [t \in Threads |-> IdleThread]
    /\ subscribers = <<>>
    /\ streams = [s \in Clients |-> NoStream]

NextMetrics ==
    LET entries == fetch_ratings(ratings, 1)
    IN  \E order \in Permutations(DOMAIN entries) : ScoreProfile(1, Reordered(entries, order))

SpecMetrics == InitMetrics /\ [][NextMetrics]_vars

\* ------------------------------------------------------------------------
\* canonical_worker_key applied to names and employee ids as callers send them
\* ------------------------------------------------------------------------
\* most characters of a name or an employee id
MaxText == 3

NameChars == {"A", "b", " ", "\t"}
EmployeeIdChars == {"E", "1", " "}

Texts(chars) == UNION {[1 .. n -> chars] : n \in 0 .. MaxText}

\* A caller's name and employee id, before the key is computed
InitKeys ==
    /\ profiles = <<>>
    /\ ratings = {}
    /\ history = {}
    /\ notes = {}
    /\ seq = [profiles |-> 0, ratings |-> 0, history |-> 0, notes |-> 0]
    /\ catalog = DefaultCatalog
    /\ \E name \in Texts(NameChars), employee_id \in Texts(EmployeeIdChars) \cup {NULL} :
          response = [op |-> "input", status |-> 0, name |-> name, employeeId |-> employee_id]
    /\ ops = 0
    /\ threads = [t \in Threads |-> IdleThread]
    /\ subscribers = <<>>
    /\ streams = [s \in Clients |-> NoStream]

\* The key of the pair
Canonicalize ==
    /\ response.op = "input"
    /\ response' = [op |-> "canonical_worker_key", status |-> 200,
                    name |-> response.name, employeeId |-> response.employeeId,
                    key |-> canonical_worker_key(response.name, response.employeeId)]
    /\ UNCHANGED <<store, catalog, ops, threads, subscribers, streams>>

NextKeys == Canonicalize

SpecKeys == InitKeys /\ [][NextKeys]_vars

\* ------------------------------------------------------------------------
\* POST /api/profiles/merge, statement by statement, beside other requests
\* ------------------------------------------------------------------------
\* What every connection reads: the rows that have been committed
Committed == [profiles |-> profiles, ratings |-> ratings, history |-> history, notes |-> notes]

\* TRUE iff the connection of thread u has written and neither committed nor rolled
\* back: it holds the write lock of the database file
InTransaction(u) ==
    threads[u].pc \in {"update_history", "update_notes", "delete_source", "build_profile"}

LockHeld == \E u \in Threads : InTransaction(u)

\* A connection that commits whether or not the with-block raised
commit_always(raised, committed, tx) == tx

\* Connection.__exit__: commit when the with-block ends normally, roll back when an
\* exception leaves it
with_exit(raised, committed, tx) == IF raised THEN committed ELSE tx

EndTransaction(t, raised) ==
    LET after == with_exit(raised, Committed, threads[t].fields.tx)
    IN  /\ profiles' = after.profiles
        /\ ratings' = after.ratings
        /\ history' = after.history
        /\ notes' = after.notes
        /\ UNCHANGED seq

\* An exception leaves the with-block and the handler: the request is not answered
MergeRaises(t, raised, tx) ==
    /\ threads' = [threads EXCEPT ![t].pc = "done", ![t].fields.tx = tx]
    /\ Respond("merge", 0, raised, 0, 0)
    /\ LET after == with_exit(TRUE, Committed, tx)
       IN  /\ profiles' = after.profiles
           /\ ratings' = after.ratings
           /\ history' = after.history
           /\ notes' = after.notes
    /\ UNCHANGED <<seq, catalog, ops, streams>>

BeginMerge(t, source_id, target_id) ==
    /\ threads[t].pc = "idle"
    /\ ops < MaxOps
    /\ ops' = ops + 1
    /\ UNCHANGED <<store, catalog, streams>>
    /\ IF source_id = 0 \/ target_id = 0 \/ source_id = target_id
       THEN /\ Respond("merge", 400, "", 0, 0)
            /\ threads' = [threads EXCEPT ![t] = [IdleThread EXCEPT !.pc = "done", !.status = 400]]
       ELSE /\ UNCHANGED <<response, subscribers>>
            /\ threads' = [threads EXCEPT ![t] =
                  [IdleThread EXCEPT !.pc = "select_source",
                                     !.fields = [source_id |-> source_id,
                                                 target_id |-> target_id,
                                                 source |-> FALSE, tx |-> <<>>]]]

\* source = SELECT * FROM worker_profiles WHERE id = source_id
SelectSource(t) ==
    /\ threads[t].pc = "select_source"
    /\ threads' = [threads EXCEPT ![t].pc = "select_target",
                                  ![t].fields.source = threads[t].fields.source_id \in DOMAIN profiles]
    /\ UNCHANGED <<store, catalog, response, ops, subscribers, streams>>

\* target = SELECT ...; 404 when either row is missing
SelectTarget(t) ==
    /\ threads[t].pc = "select_target"
    /\ UNCHANGED <<store, catalog, ops, streams>>
    /\ IF ~threads[t].fields.source \/ threads[t].fields.target_id \notin DOMAIN profiles
       THEN /\ Respond("merge", 404, "", 0, 0)
            /\ threads' = [threads EXCEPT ![t].pc = "done", ![t].status = 404]
       ELSE /\ UNCHANGED <<response, subscribers>>
            /\ threads' = [threads EXCEPT ![t].pc = "update_ratings"]

\* UPDATE <table> SET worker_id = target_id WHERE worker_id = source_id, on the rows
\* the connection sees; a row that would point at a missing profile is refused
UpdateWorkerId(t, table, tx, next) ==
    LET source_id == threads[t].fields.source_id
        target_id == threads[t].fields.target_id
    IN  IF /\ \E r \in tx[table] : r.worker_id = source_id
           /\ ForeignKeyViolation(tx.profiles, target_id)
        THEN MergeRaises(t, "IntegrityError", tx)
        ELSE /\ threads' = [threads EXCEPT
                   ![t].pc = next,
                   ![t].fields.tx = [tx EXCEPT ![table] = Reparent(@, source_id, target_id)]]
             /\ UNCHANGED <<store, catalog, response, ops, subscribers, streams>>

\* The first UPDATE opens the transaction and takes the write lock
UpdateRatings(t) ==
    /\ threads[t].pc = "update_ratings"
    /\ ~LockHeld
    /\ UpdateWorkerId(t, "ratings", Committed, "update_history")

\* sqlite3.connect() waits 5 seconds for the lock and then raises
LockTimeout(t) ==
    /\ threads[t].pc = "update_ratings"
    /\ LockHeld
    /\ MergeRaises(t, "OperationalError", Committed)

UpdateHistory(t) ==
    /\ threads[t].pc = "update_history"
    /\ UpdateWorkerId(t, "history", threads[t].fields.tx, "update_notes")

UpdateNotes(t) ==
    /\ threads[t].pc = "update_notes"
    /\ UpdateWorkerId(t, "notes", threads[t].fields.tx, "delete_source")

\* DELETE FROM worker_profiles WHERE id = source_id, and the UPDATE of the target's
\* updated_at
DeleteSource(t) ==
    /\ threads[t].pc = "delete_source"
    /\ LET tx == threads[t].fields.tx
           P == DeleteProfileRow(tx.profiles, threads[t].fields.source_id)
       IN  threads' = [threads EXCEPT
               ![t].pc = "build_profile",
               ![t].fields.tx = [profiles |-> P, ratings |-> Cascade(tx.ratings, P),
                                 history |-> Cascade(tx.history, P),
                                 notes |-> Cascade(tx.notes, P)]]
    /\ UNCHANGED <<store, catalog, response, ops, subscribers, streams>>

\* row = SELECT ...; build_profile(connection, row), which raises TypeError on
\* row['id'] when there is no row; then the with-block ends, the event is published
\* and the profile sent
FinishMerge(t) ==
    /\ threads[t].pc = "build_profile"
    /\ IF threads[t].fields.target_id \notin DOMAIN threads[t].fields.tx.profiles
       THEN MergeRaises(t, "TypeError", threads[t].fields.tx)
       ELSE /\ EndTransaction(t, FALSE)
            /\ publish_change_event(ChangeEvent(threads[t].fields.target_id, "merge"))
            /\ Answer("merge", 200, "", threads[t].fields.target_id, 0, NULL, NULL)
            /\ threads' = [threads EXCEPT ![t].pc = "done", ![t].status = 200]
            /\ UNCHANGED <<catalog, ops, streams>>

\* A profile with a rating and a history entry, a profile with history and notes, a
\* profile with no records
MergeCreateInputs ==
    {WithIdentity([NoPayload EXCEPT !.historyEntries = Criteria("list", <<HistoryEntry>>),
                                    !.profileNotes = Criteria("list", <<NoteEntry>>)],
                  <<NameAB, ABSENT>>),
     WithIdentity(NoPayload, <<NameCy, EidE1>>)}

\* Requests that write wait for the lock; requests that read do not
NextMerge ==
    \/ ~LockHeld /\ \E now \in NowValues : SubmitRating(NameAB, NULL, GoodRating, now)
    \/ ~LockHeld /\ \E payload \in MergeCreateInputs, now \in NowValues :
                       CreateProfile(payload, now)
    \/ ~LockHeld /\ \E id \in RecordIds : DeleteProfile(id)
    \/ \E id \in RecordIds : GetProfile(id)
    \/ \E t \in Threads, source_id \in RecordIds, target_id \in RecordIds :
          BeginMerge(t, source_id, target_id)
    \/ \E t \in Threads : SelectSource(t)
    \/ \E t \in Threads : SelectTarget(t)
    \/ \E t \in Threads : UpdateRatings(t)
    \/ \E t \in Threads : LockTimeout(t)
    \/ \E t \in Threads : UpdateHistory(t)
    \/ \E t \in Threads : UpdateNotes(t)
    \/ \E t \in Threads : DeleteSource(t)
    \/ \E t \in Threads : FinishMerge(t)

SpecMerge == InitRecords /\ [][NextMerge]_vars

\* ------------------------------------------------------------------------
\* Requests whose names hold the separator of the canonical key
\* ------------------------------------------------------------------------
NameWithSeparator == <<"C", "y", ":", ":", "E", "1">>

SeparatorIdentities ==
    {<<NameWithSeparator, NULL>>, <<NameCy, EidE1>>, <<NameVariant, NULL>>, <<NameAB, EidE2>>}

SeparatorUpdateInputs == {[NoPayload EXCEPT !.name = NameVariant], [NoPayload EXCEPT !.status = Ok]}

NextSeparator ==
    \/ \E identity \in SeparatorIdentities, now \in NowValues :
          SubmitRating(identity[1], identity[2], GoodRating, now)
    \/ \E identity \in SeparatorIdentities, now \in NowValues :
          CreateProfile(WithIdentity(NoPayload, identity), now)
    \/ \E id \in RecordIds, payload \in SeparatorUpdateInputs, now \in NowValues :
          UpdateProfile(id, payload, now)
    \/ \E source_id \in RecordIds, target_id \in RecordIds : MergeProfiles(source_id, target_id)

SpecSeparator == Init /\ [][NextSeparator]_vars

\* ------------------------------------------------------------------------
\* Requests that write child records beside requests that remove their profile
\* ------------------------------------------------------------------------
\* TRUE iff thread t is between the SELECT and the first write of a request whose
\* body has the field `field`
Pending(t, field) == threads[t].pc = "write" /\ field \in DOMAIN threads[t].fields

\* Bodies of PUT /api/profiles/{id} that insert a rating, history entries and notes
OrphanUpdateInputs ==
    {[NoPayload EXCEPT !.logRating = TRUE],
     [NoPayload EXCEPT !.historyEntries = Criteria("list", <<HistoryEntry>>),
                       !.profileNotes = Criteria("list", <<NoteEntry>>)]}

\* Each request is split where sqlite3 lets another connection commit: after the
\* SELECTs that precede its first write.  From that write to the end of its
\* with-block it holds the write lock, and the requests that write wait for it
NextOrphans ==
    \/ ~LockHeld /\ \E payload \in MergeCreateInputs, now \in NowValues :
                       CreateProfile(payload, now)
    \/ ~LockHeld /\ \E id \in RecordIds : DeleteProfile(id)
    \/ \E t \in Threads, now \in NowValues : BeginSubmit(t, NameAB, NULL, GoodRating, now)
    \/ \E t \in Threads : LookupKey(t)
    \/ \E t \in Threads : LookupName(t)
    \/ ~LockHeld /\ \E t \in Threads : Pending(t, "worker_name") /\ CommitSubmit(t)
    \/ \E t \in Threads, id \in RecordIds, now \in NowValues :
          BeginAddRating(t, id, GoodRating, now)
    \/ ~LockHeld /\ \E t \in Threads : CommitAddRating(t)
    \/ \E t \in Threads, id \in RecordIds, payload \in OrphanUpdateInputs, now \in NowValues :
          BeginUpdate(t, id, payload, now)
    \/ ~LockHeld /\ \E t \in Threads : Pending(t, "profile_id") /\ CommitUpdate(t)
    \/ \E t \in Threads, source_id \in RecordIds, target_id \in RecordIds :
          BeginMerge(t, source_id, target_id)
    \/ \E t \in Threads : SelectSource(t)
    \/ \E t \in Threads : SelectTarget(t)
    \/ \E t \in Threads : UpdateRatings(t)
    \/ \E t \in Threads : LockTimeout(t)
    \/ \E t \in Threads : UpdateHistory(t)
    \/ \E t \in Threads : UpdateNotes(t)
    \/ \E t \in Threads : DeleteSource(t)
    \/ \E t \in Threads : FinishMerge(t)

SpecOrphans == InitRecords /\ [][NextOrphans]_vars

\* ------------------------------------------------------------------------
\* Mutations whose commit and whose publish_change_event are steps of their own,
\* beside other mutations, the clients of /api/events and reads
\* ------------------------------------------------------------------------
\* Mutant: publish_change_event in a finally clause, which an exception does not skip
publish_in_finally(raised) == FALSE

\* An exception that leaves the with-block, and the return after _send_json(409),
\* skip the publish_change_event that follows the with-block
skips_publish(raised) == raised

\* What a thread keeps from the end of its with-block to its answer
Publishing(worker_id, action, source_id, rating_id) ==
    [worker_id |-> worker_id, message |-> ChangeEvent(worker_id, action), copy |-> {},
     source_id |-> source_id, rating_id |-> rating_id]

\* POST /api/profiles from its first INSERT / UPDATE to the end of its with-block
WriteSubmit(t) ==
    /\ threads[t].pc = "write"
    /\ UNCHANGED <<catalog, ops, streams>>
    /\ SubmitWith(threads[t].fields, threads[t].existing, FALSE)
    /\ LET existing == threads[t].existing
           worker_id == IF existing = NoMatch THEN seq.profiles + 1 ELSE existing
       IN  threads' = [threads EXCEPT ![t] =
              IF skips_publish(response'.status = 409)
              THEN [@ EXCEPT !.pc = "done", !.status = 409]
              ELSE [@ EXCEPT !.pc = "publish",
                             !.status = IF existing = NoMatch THEN 201 ELSE 200,
                             !.fields = Publishing(worker_id, "submit_rating", 0,
                                                   seq.ratings + 1)]]

\* POST /api/profiles/merge: row = SELECT ...; build_profile(connection, row), which
\* raises TypeError on row['id'] when there is no row; then the with-block ends
CommitMerge(t) ==
    /\ threads[t].pc = "build_profile"
    /\ LET raised == threads[t].fields.target_id \notin DOMAIN threads[t].fields.tx.profiles
       IN  /\ EndTransaction(t, raised)
           /\ IF raised THEN Respond("merge", 0, "TypeError", 0, 0)
                        ELSE UNCHANGED <<response, subscribers>>
           /\ threads' = [threads EXCEPT ![t] =
                 IF skips_publish(raised)
                 THEN [@ EXCEPT !.pc = "done"]
                 ELSE [@ EXCEPT !.pc = "publish", !.status = 200,
                                !.fields = Publishing(threads[t].fields.target_id, "merge",
                                                      threads[t].fields.source_id, 0)]]
    /\ UNCHANGED <<catalog, ops, streams>>

\* self._send_json(status, profile) after publish_change_event has returned
SendProfile(t) ==
    /\ threads[t].pc = "put"
    /\ threads[t].fields.copy = {}
    /\ threads[t].fields.message.action # "delete_profile"
    /\ Answer(threads[t].fields.message.action, threads[t].status, "",
              threads[t].fields.worker_id, threads[t].fields.rating_id, NULL, NULL)
    /\ threads' = [threads EXCEPT ![t].pc = "done"]
    /\ UNCHANGED <<store, catalog, ops, subscribers, streams>>

\* The client that reads the events: it has registered and been greeted before the
\* first mutation, and waits in event_queue.get
Reader == 1

InitCommit ==
    /\ profiles = <<>>
    /\ ratings = {}
    /\ history = {}
    /\ notes = {}
    /\ seq = [profiles |-> 0, ratings |-> 0, history |-> 0, notes |-> 0]
    /\ catalog = DefaultCatalog
    /\ response = [op |-> "start", status |-> 0, raised |-> "", profileId |-> 0, ratingId |-> 0,
                   name |-> NULL, employeeId |-> NULL]
    /\ ops = 0
    /\ threads = [t \in Threads |-> IdleThread]
    /\ subscribers = (Reader :> <<>>)
    /\ streams = [s \in Clients |-> IF s = Reader THEN [pc |-> "wait", conn |-> "open"]
                                                  ELSE NoStream]

NextCommit ==
    \/ \E t \in Threads, identity \in {<<NameAB, NULL>>, <<NameCy, EidE1>>}, now \in NowValues :
          BeginSubmit(t, identity[1], identity[2], GoodRating, now)
    \/ \E t \in Threads : LookupKey(t)
    \/ \E t \in Threads : LookupName(t)
    \/ ~LockHeld /\ \E t \in Threads : WriteSubmit(t)
    \/ ~LockHeld /\ \E t \in Threads, id \in RecordIds : BeginDelete(t, id)
    \/ \E t \in Threads, source_id \in RecordIds, target_id \in RecordIds :
          BeginMerge(t, source_id, target_id)
    \/ \E t \in Threads : SelectSource(t)
    \/ \E t \in Threads : SelectTarget(t)
    \/ \E t \in Threads : UpdateRatings(t)
    \/ \E t \in Threads : UpdateHistory(t)
    \/ \E t \in Threads : UpdateNotes(t)
    \/ \E t \in Threads : DeleteSource(t)
    \/ \E t \in Threads : CommitMerge(t)
    \/ \E t \in Threads : CopySubscribers(t)
    \/ \E t \in Threads, q \in Clients : PutMessage(t, q)
    \/ \E t \in Threads : /\ threads[t].pc = "put"
                          /\ threads[t].fields.message.action = "delete_profile"
                          /\ SendNoContent(t)
    \/ \E t \in Threads : SendProfile(t)
    \/ \E s \in Clients : Deliver(s)
    \/ \E id \in RecordIds : GetProfile(id)

SpecCommit == InitCommit /\ [][NextCommit]_vars

\* Every client of /api/events has registered and been greeted before the first
\* mutation, and waits in event_queue.get
InitOrder ==
    /\ profiles = <<>>
    /\ ratings = {}
    /\ history = {}
    /\ notes = {}
    /\ seq = [profiles |-> 0, ratings |-> 0, history |-> 0, notes |-> 0]
    /\ catalog = DefaultCatalog
    /\ response = [op |-> "start", status |-> 0, raised |-> "", profileId |-> 0, ratingId |-> 0,
                   name |-> NULL, employeeId |-> NULL]
    /\ ops = 0
    /\ threads = [t \in Threads |-> IdleThread]
    /\ subscribers = [s \in Clients |-> <<>>]
    /\ streams = [s \in Clients |-> [pc |-> "wait", conn |-> "open"]]

SpecOrder == InitOrder /\ [][NextCommit]_vars

\* ------------------------------------------------------------------------
\* Properties
\* ------------------------------------------------------------------------
\* What a handler passes to the resolver for the identity a caller sent
WorkerNameOf(identity) == Strip(PyStr(PayloadGet(identity[1], NULL)))
EmployeeIdOf(identity) == normalize_employee_id(PayloadGet(identity[2], NULL))
KeyOf(identity) == canonical_worker_key(WorkerNameOf(identity), EmployeeIdOf(identity))
Resolve(identity) ==
    find_profile_by_rating_identity(profiles, WorkerNameOf(identity), KeyOf(identity),
                                    EmployeeIdOf(identity))
KeyMatches(identity) == {i \in DOMAIN profiles : profiles[i].canonical_worker_key = KeyOf(identity)}
NameMatches(identity) ==
    {i \in DOMAIN profiles : profiles[i].canonical_name = normalize_worker_name(WorkerNameOf(identity))}

\* C1: no two profiles share a non-null canonical key, and no two share a non-null
\* external employee id; so the exact-key lookup of the resolver never has two rows
\* to choose from.
C1_UniqueIdentity ==
    /\ \A i, j \in DOMAIN profiles :
          i # j =>
             /\ profiles[i].canonical_worker_key # NULL
                => profiles[i].canonical_worker_key # profiles[j].canonical_worker_key
             /\ profiles[i].external_employee_id # NULL
                => profiles[i].external_employee_id # profiles[j].external_employee_id
    /\ \A identity \in IdentityInputs : Cardinality(KeyMatches(identity)) <= 1

\* C1 witness: a submitted employee id that another worker's profile holds was refused
C1_Witness ==
    /\ response.raised = "IntegrityError"
    /\ response.employeeId # NULL
    /\ \E i \in DOMAIN profiles :
          /\ profiles[i].external_employee_id = response.employeeId
          /\ profiles[i].canonical_name # normalize_worker_name(response.name)

\* C3: called with an employee id and no profile having the canonical key, the
\* resolver answers "no match", also when profiles share the normalized name.
C3_EmployeeIdIsAuthoritative ==
    \A identity \in IdentityInputs :
        (EmployeeIdOf(identity) # NULL /\ KeyMatches(identity) = {})
        => Resolve(identity) = NoMatch

\* C3 witness: a submitRating that carried an employee id created a new profile
\* although another profile has the same normalized name
C3_Witness ==
    /\ response.op = "submit_rating" /\ response.status = 201
    /\ response.employeeId # NULL
    /\ \E i \in DOMAIN profiles \ {response.profileId} :
          profiles[i].canonical_name = normalize_worker_name(response.name)

\* C4: called without an employee id and no profile having the canonical key, the
\* resolver returns the profile sharing the normalized name when there is exactly
\* one, and "no match" when there is none or more than one.
C4_NameFallback ==
    \A identity \in IdentityInputs :
        (EmployeeIdOf(identity) = NULL /\ KeyMatches(identity) = {})
        => IF Cardinality(NameMatches(identity)) = 1
           THEN Resolve(identity) \in NameMatches(identity)
           ELSE Resolve(identity) = NoMatch

\* C4 witness: two profiles share a normalized name, neither has the bare-name key,
\* and a caller's identity without employee id normalizes to that name
C4_Witness ==
    \E identity \in IdentityInputs :
        /\ EmployeeIdOf(identity) = NULL
        /\ KeyMatches(identity) = {}
        /\ Cardinality(NameMatches(identity)) = 2

\* Two requests raced for one brand-new worker: both resolvers answered "no match"
\* for the same canonical key, and both requests have been answered
RacedForNewWorker(t, u) ==
    /\ t # u
    /\ threads[t].pc = "done" /\ threads[u].pc = "done"
    /\ threads[t].status # 400 /\ threads[u].status # 400
    /\ threads[t].existing = NoMatch /\ threads[u].existing = NoMatch
    /\ threads[t].brand_new /\ threads[u].brand_new
    /\ threads[t].fields.key = threads[u].fields.key

C2_OneInsertPersists ==
    \A t, u \in Threads :
        RacedForNewWorker(t, u)
        => /\ {threads[t].status, threads[u].status} = {201, 409}
           /\ Cardinality({i \in DOMAIN profiles :
                              profiles[i].canonical_worker_key = threads[t].fields.key}) = 1

C2_LoserPersistsNothing ==
    \A t \in Threads :
        (threads[t].pc = "write" /\ threads'[t].pc = "done" /\ threads'[t].status = 409)
        => /\ store' = store
           /\ response'.raised = "IntegrityError"

Handled(op) == ops' = ops + 1 /\ response'.op = op

\* Names, as the handlers store them, that differ only in letter case and in leading,
\* trailing or repeated internal whitespace
CaseAndSpaceVariants == {Strip(NameAB), Strip(NameVariant), Strip(NameLower)}

\* The step appended exactly one rating, owned by profile p
AppendedRatingTo(p) ==
    \E r \in ratings' \ ratings :
        /\ ratings' = ratings \cup {r}
        /\ r.worker_id = p
        /\ r.id = response'.ratingId

\* C5: a submitRating without employee id whose name differs only in case and
\* whitespace from the name of a profile without employee id updates that profile:
\* it answers with that profile, creates none, and the profile owns the new rating
\* next to the ratings it had.
C5_VariantNameUpdatesSameProfile ==
    [][\A p \in DOMAIN profiles :
          (/\ Handled("submit_rating")
           /\ response'.status # 400
           /\ response'.employeeId = NULL
           /\ response'.name \in CaseAndSpaceVariants
           /\ profiles[p].name \in CaseAndSpaceVariants
           /\ profiles[p].external_employee_id = NULL)
          => /\ response'.status = 200
             /\ response'.profileId = p
             /\ DOMAIN profiles' = DOMAIN profiles
             /\ AppendedRatingTo(p)]_vars

\* C5 witness: the second submitRating spelled the name differently from the stored
\* one; there is still one profile, and it owns both ratings
C5_Witness ==
    /\ response.op = "submit_rating" /\ response.status = 200
    /\ response.employeeId = NULL
    /\ DOMAIN profiles = {response.profileId}
    /\ profiles[response.profileId].name # response.name
    /\ profiles[response.profileId].name \in CaseAndSpaceVariants
    /\ response.name \in CaseAndSpaceVariants
    /\ Cardinality({r \in ratings : r.worker_id = response.profileId}) = 2

\* C6: when a submitRating names a worker whose identical name is stored on the only
\* profile of that name, and exactly one of the two has an employee id, the request
\* creates a second profile: the stored profile keeps its employee id (or its lack of
\* one) and the new profile has the submitted one.
C6_SameNameDistinctProfiles ==
    [][\A p \in DOMAIN profiles :
          (/\ Handled("submit_rating")
           /\ response'.status # 400
           /\ profiles[p].name = response'.name
           /\ (profiles[p].external_employee_id = NULL) # (response'.employeeId = NULL)
           /\ \A q \in DOMAIN profiles \ {p} :
                 profiles[q].canonical_name # profiles[p].canonical_name)
          => /\ response'.status = 201
             /\ response'.profileId \notin DOMAIN profiles
             /\ profiles'[p].external_employee_id = profiles[p].external_employee_id
             /\ profiles'[response'.profileId].external_employee_id = response'.employeeId
             /\ profiles'[response'.profileId].name = profiles[p].name]_vars

\* C6, the order "employee id first": the stored profile has an employee id, the
\* request has none
C6_IdFirst ==
    [][\A p \in DOMAIN profiles :
          (/\ Handled("submit_rating")
           /\ response'.status # 400
           /\ profiles[p].name = response'.name
           /\ profiles[p].external_employee_id # NULL
           /\ response'.employeeId = NULL
           /\ \A q \in DOMAIN profiles \ {p} :
                 profiles[q].canonical_name # profiles[p].canonical_name)
          => /\ response'.status = 201
             /\ profiles'[p].external_employee_id = profiles[p].external_employee_id]_vars

\* C6, the order "employee id second": the stored profile has none, the request has one
C6_IdSecond ==
    [][\A p \in DOMAIN profiles :
          (/\ Handled("submit_rating")
           /\ response'.status # 400
           /\ profiles[p].name = response'.name
           /\ profiles[p].external_employee_id = NULL
           /\ response'.employeeId # NULL
           /\ \A q \in DOMAIN profiles \ {p} :
                 /\ profiles[q].canonical_name # profiles[p].canonical_name
                 /\ profiles[q].external_employee_id # response'.employeeId)
          => response'.status = 201]_vars

\* C7: when two profiles share a normalized name, none has the bare-name key, and
\* submitRating is called with a name that normalizes to it and no employee id, the
\* request creates a new profile: one profile more, which owns the new rating.
C7_AmbiguousNameCreatesProfile ==
    [][(/\ Handled("submit_rating")
        /\ response'.status # 400
        /\ response'.employeeId = NULL
        /\ Cardinality({i \in DOMAIN profiles :
               profiles[i].canonical_name = normalize_worker_name(response'.name)}) = 2
        /\ \A i \in DOMAIN profiles :
               profiles[i].canonical_worker_key # normalize_worker_name(response'.name))
       => /\ response'.status = 201
          /\ Cardinality(DOMAIN profiles') = Cardinality(DOMAIN profiles) + 1
          /\ response'.profileId \notin DOMAIN profiles
          /\ AppendedRatingTo(response'.profileId)]_vars

\* The identity the request asked to persist has the canonical key or the employee
\* id of a profile other than the one it addressed
KeyOrEmployeeIdCollides ==
    \E j \in DOMAIN profiles \ {response'.profileId} :
        \/ profiles[j].canonical_worker_key =
              canonical_worker_key(response'.name, response'.employeeId)
        \/ /\ response'.employeeId # NULL
           /\ profiles[j].external_employee_id = response'.employeeId

\* C8: a submitRating, createOrUpdateProfile or updateProfile that the store refuses
\* because its canonical key or employee id collides with another profile answers
\* with the conflict status and leaves the store as it was.
C8_CollisionIsConflict ==
    [][(/\ \/ Handled("submit_rating")
           \/ Handled("create_profile")
           \/ Handled("update_profile")
        /\ response'.raised = "IntegrityError"
        /\ KeyOrEmployeeIdCollides)
       => /\ response'.status = 409
          /\ store' = store]_vars

\* The history entry append_profile_history_entry writes for rating r
IsRatingLoggedEntry(h, r) ==
    /\ h.worker_id = r.worker_id
    /\ h.category = r.job_category
    /\ h.score = r.score
    /\ h.note = RatingLoggedNote(r.reviewer, r.notes)
    /\ h.created_at = r.rated_at

\* C9: a submitRating, addRatingToProfile or updateProfile step that appends a rating
\* leaves the rating row, the owning profile's snapshot equal to it and the profile's
\* "Rating logged by ..." history entry; a submitRating or addRatingToProfile step
\* that appends none changes no profile and no history entry.
C9_RatingAppendIsAllOrNothing ==
    [][(\/ Handled("submit_rating")
        \/ Handled("add_rating")
        \/ Handled("update_profile"))
       => IF ratings' # ratings
          THEN \A r \in ratings' \ ratings :
                  /\ r.worker_id \in DOMAIN profiles'
                  /\ profiles'[r.worker_id].job_category = r.job_category
                  /\ profiles'[r.worker_id].score = <<r.score>>
                  /\ profiles'[r.worker_id].reviewer = r.reviewer
                  /\ profiles'[r.worker_id].notes = r.notes
                  /\ profiles'[r.worker_id].rated_at = r.rated_at
                  /\ \E h \in history' : IsRatingLoggedEntry(h, r)
          ELSE response'.op # "update_profile"
               => profiles' = profiles /\ history' = history]_vars

\* C9 for the two POST handlers alone, which append the history entry last
C9_SubmitAndAddRating ==
    [][(Handled("submit_rating") \/ Handled("add_rating"))
       => IF ratings' # ratings
          THEN \A r \in ratings' \ ratings :
                  /\ r.worker_id \in DOMAIN profiles'
                  /\ profiles'[r.worker_id].job_category = r.job_category
                  /\ profiles'[r.worker_id].score = <<r.score>>
                  /\ profiles'[r.worker_id].reviewer = r.reviewer
                  /\ profiles'[r.worker_id].notes = r.notes
                  /\ profiles'[r.worker_id].rated_at = r.rated_at
                  /\ \E h \in history' : IsRatingLoggedEntry(h, r)
          ELSE profiles' = profiles /\ history' = history]_vars

\* Rating payloads the validation is to refuse: no category, a category or criterion
\* outside the catalog, a score out of range or no number, no reviewer, criteria that
\* are no array
MalformedRatingInputs == RatingInputs \ {GoodRating, LateRating}

\* C10: a submitRating or addRatingToProfile whose payload is malformed, and an
\* updateProfile or createOrUpdateProfile whose payload is, answers 400 and writes
\* nothing.
C10_MalformedIsRejected ==
    [][\A now \in NowValues :
          /\ \A r \in MalformedRatingInputs :
                (\/ SubmitRating(NameAB, NULL, r, now)
                 \/ 1 \in DOMAIN profiles /\ AddRating(1, r, now))
                => response'.status = 400 /\ store' = store
          /\ \A payload \in MalformedUpdateInputs :
                (1 \in DOMAIN profiles /\ UpdateProfile(1, payload, now))
                => response'.status = 400 /\ store' = store
          /\ \A payload \in CreateInputs :
                (/\ \/ payload.name = NameShort
                    \/ payload.historyEntries.kind = "other"
                    \/ payload.profileNotes.kind = "other"
                 /\ CreateProfile(payload, now))
                => response'.status = 400 /\ store' = store]_vars

\* C10, the rating payload without a category
C10_MissingCategory ==
    [][\A now \in NowValues :
          SubmitRating(NameAB, NULL, [GoodRating EXCEPT !.category = ABSENT], now)
          => response'.status = 400 /\ store' = store]_vars

\* C10, updateProfile with history or notes that are no array
C10_HistoryNoArray ==
    [][\A now \in NowValues, payload \in
              {[NoPayload EXCEPT !.historyEntries = Criteria("other", <<>>)],
               [NoPayload EXCEPT !.profileNotes = Criteria("other", <<>>)]} :
          (1 \in DOMAIN profiles /\ UpdateProfile(1, payload, now))
          => response'.status = 400]_vars

UpdatableFields ==
    {<<"name", "name">>, <<"external_employee_id", "externalEmployeeId">>,
     <<"job_category", "category">>, <<"score", "score">>, <<"reviewer", "reviewer">>,
     <<"notes", "note">>, <<"rated_at", "ratedAt">>, <<"profile_status", "status">>,
     <<"background_info", "background">>}

\* The body has no such key (a score is <<>> and a ratedAt 0 when the key is missing)
Omitted(payload, key) ==
    CASE key = "score" -> payload.score = <<>>
      [] key = "ratedAt" -> payload.ratedAt = 0
      [] OTHER -> payload[key] = ABSENT

\* C12: after a successful updateProfile every stored field the body omits has the
\* value it had before, whatever that value was, NULL included.
C12_OmittedFieldsKeepValue ==
    [][\A id \in RecordIds, payload \in UpdateInputs, now \in NowValues :
          (/\ response'.op = "update_profile"
           /\ response'.status = 200
           /\ UpdateProfile(id, payload, now))
          => \A field \in UpdatableFields :
                Omitted(payload, field[2]) => profiles'[id][field[1]] = profiles[id][field[1]]]_vars

\* The stored value is NULL (a score <<>>, a rated_at 0) or the empty text
StoredNull(row, column) ==
    CASE column = "score" -> row.score = <<>>
      [] column = "rated_at" -> row.rated_at = 0
      [] OTHER -> row[column] = NULL \/ row[column] = <<>>

\* C12 for the stored values that are not NULL: those an updateProfile keeps
C12_OmittedNonNullFieldsKeepValue ==
    [][\A id \in RecordIds, payload \in UpdateInputs, now \in NowValues :
          (/\ response'.op = "update_profile"
           /\ response'.status = 200
           /\ UpdateProfile(id, payload, now))
          => \A field \in UpdatableFields :
                (Omitted(payload, field[2]) /\ ~StoredNull(profiles[id], field[1]))
                => profiles'[id][field[1]] = profiles[id][field[1]]]_vars

\* The rows of a child table that profile p owns
OwnedBy(rows, p) == {r \in rows : r.worker_id = p}

\* After the step, the history entries and notes of profile p are the ones the body
\* supplied, one row each, and no row that p owned before is left
RecordsReplacedBy(p, payload, now) ==
    LET entries == IF payload.historyEntries.kind = "list" THEN payload.historyEntries.items
                   ELSE <<>>
        supplied_notes == IF payload.profileNotes.kind = "list" THEN payload.profileNotes.items
                          ELSE <<>>
    IN  /\ Cardinality(OwnedBy(history', p)) = Len(entries)
        /\ \A i \in DOMAIN entries :
              \E h \in OwnedBy(history', p) :
                 /\ h.category = entries[i].category
                 /\ <<h.score>> = entries[i].score
                 /\ h.note = (IF entries[i].note = ABSENT THEN NULL ELSE entries[i].note)
                 /\ h.created_at = (IF entries[i].createdAt # 0 THEN entries[i].createdAt ELSE now)
        /\ Cardinality(OwnedBy(notes', p)) = Len(supplied_notes)
        /\ \A i \in DOMAIN supplied_notes :
              \E n \in OwnedBy(notes', p) :
                 /\ n.note = supplied_notes[i].note
                 /\ n.created_at = (IF supplied_notes[i].createdAt # 0
                                    THEN supplied_notes[i].createdAt ELSE now)
        /\ \A h \in OwnedBy(history, p) : ~ \E k \in history' : k.id = h.id
        /\ \A n \in OwnedBy(notes, p) : ~ \E k \in notes' : k.id = n.id

\* C13: after every successful createOrUpdateProfile and updateProfile the profile's
\* history entries are exactly the entries of the request (none when it has none)
\* and its notes exactly the notes of the request; no earlier entry or note survives.
C13_HistoryAndNotesAreReplaced ==
    [][\A now \in NowValues :
          /\ \A payload \in RecordCreateInputs :
                (/\ response'.op = "create_profile"
                 /\ response'.status \in {200, 201}
                 /\ ~RecordsReplacedBy(response'.profileId, payload, now))
                => ~CreateProfile(payload, now)
          /\ \A id \in RecordIds, payload \in UpdateInputs :
                (/\ response'.op = "update_profile"
                 /\ response'.status = 200
                 /\ response'.profileId = id
                 /\ ~RecordsReplacedBy(id, payload, now))
                => ~UpdateProfile(id, payload, now)]_vars

\* C13 witness: the only profile there ever was has been updated with one history
\* entry and one note, and they are all it has although it had entries before
C13_Witness ==
    /\ response.op = "update_profile" /\ response.status = 200
    /\ seq.profiles = 1 /\ DOMAIN profiles = {1}
    /\ seq.history >= 2
    /\ \E h \in history : history = {h} /\ h.id = seq.history /\ h.category = Picker
    /\ \E n \in notes : notes = {n} /\ n.note = Ok


\* The three child tables, before and after a step
ChildTables == <<ratings, history, notes>>
ChildTablesAfter == <<ratings', history', notes'>>

\* C14: after a successful merge of A into B the target owns as many ratings, history
\* entries and notes as A and B owned together before, A is no longer a profile, and
\* the records of every other profile are unchanged; fetching an id that is not a
\* profile, as A after the merge, is answered NotFound.
C14_MergeMovesAllRecords ==
    [][/\ \A id \in RecordIds :
             (/\ response'.op = "get_profile"
              /\ GetProfile(id))
             => (response'.status = 404 <=> id \notin DOMAIN profiles)
       /\ \A source_id \in RecordIds, target_id \in RecordIds :
          (/\ response'.op = "merge"
           /\ response'.status = 200
           /\ MergeProfiles(source_id, target_id))
          => /\ \A t \in 1 .. 3 :
                   /\ Cardinality(OwnedBy(ChildTablesAfter[t], target_id))
                         = Cardinality(OwnedBy(ChildTables[t], source_id))
                           + Cardinality(OwnedBy(ChildTables[t], target_id))
                   /\ OwnedBy(ChildTablesAfter[t], source_id) = {}
                   /\ \A p \in DOMAIN profiles \ {source_id, target_id} :
                         OwnedBy(ChildTablesAfter[t], p) = OwnedBy(ChildTables[t], p)
             /\ source_id \notin DOMAIN profiles'
             /\ target_id \in DOMAIN profiles']_vars

\* C14 witness: three submissions made three profiles with a rating each, and the
\* merge that followed left one profile owning two ratings and two history entries
\* beside a third profile that still owns its rating
C14_Witness ==
    /\ response.op = "merge" /\ response.status = 200
    /\ ops = 3
    /\ seq.profiles = 3 /\ seq.ratings = 3
    /\ Cardinality(DOMAIN profiles) = 2
    /\ Cardinality(OwnedBy(ratings, response.profileId)) = 2
    /\ Cardinality(OwnedBy(history, response.profileId)) = 2
    /\ \E p \in DOMAIN profiles \ {response.profileId} :
          Cardinality(OwnedBy(ratings, p)) = 1


\* The ids of a merge the claim rejects: equal, or one of them no profile
MergeIds == {0} \cup RecordIds
Unmergeable(source_id, target_id) ==
    \/ source_id = target_id
    \/ source_id \notin DOMAIN profiles
    \/ target_id \notin DOMAIN profiles

\* C15: a merge whose ids are equal or do not both name a profile is rejected with a
\* validation error (400) and leaves every profile and child record unchanged.
C15_UnmergeableIsValidationError ==
    [][\A source_id \in MergeIds, target_id \in MergeIds :
          (/\ response'.op = "merge"
           /\ Unmergeable(source_id, target_id)
           /\ MergeProfiles(source_id, target_id))
          => /\ response'.status = 400
             /\ UNCHANGED store]_vars

\* What the handler does for such a merge: it answers 400 when an id is missing from
\* the body or the two are equal, 404 when both are given, differ and one of them is
\* no profile; in either case nothing is written
C15_UnmergeableWritesNothing ==
    [][\A source_id \in MergeIds, target_id \in MergeIds :
          (/\ response'.op = "merge"
           /\ Unmergeable(source_id, target_id)
           /\ MergeProfiles(source_id, target_id))
          => /\ response'.status
                   = (IF source_id = 0 \/ target_id = 0 \/ source_id = target_id
                      THEN 400 ELSE 404)
             /\ UNCHANGED store]_vars


\* C16: a successful merge leaves the target's row as it was: name, employee id,
\* canonical name and key, status, background and the latest-rating snapshot; nothing
\* comes from the source row or from the ratings the target now owns.
C16_MergeKeepsTargetFields ==
    [][\A source_id \in RecordIds, target_id \in RecordIds :
          (/\ response'.op = "merge"
           /\ response'.status = 200
           /\ MergeProfiles(source_id, target_id))
          => profiles'[target_id] = profiles[target_id]]_vars

\* C16 witness: two submissions made two profiles, the merge that followed gave the
\* target a rating whose score and time are not the ones in the target's snapshot
C16_Witness ==
    /\ response.op = "merge" /\ response.status = 200
    /\ ops = 3 - RecordOpsExtra
    /\ seq.profiles = 2
    /\ DOMAIN profiles = {response.profileId}
    /\ \E r \in OwnedBy(ratings, response.profileId) :
          /\ <<r.score>> # profiles[response.profileId].score
          /\ r.rated_at # profiles[response.profileId].rated_at


\* C17: deleteRating removes a rating and reports it (200) exactly when a rating with
\* that id is owned by that profile, and then it removes that rating only; otherwise
\* it removes nothing; either way the ratings of every other profile are unchanged.
C17_DeleteRatingIsScoped ==
    [][\A worker_id \in RecordIds, entry_id \in RecordIds :
          (/\ response'.op = "delete_rating"
           /\ DeleteRating(worker_id, entry_id))
          => LET owned == {r \in ratings : r.id = entry_id /\ r.worker_id = worker_id}
             IN  /\ response'.status = 200 <=> owned # {}
                 /\ ratings' = ratings \ owned
                 /\ \A p \in DOMAIN profiles \ {worker_id} :
                       OwnedBy(ratings', p) = OwnedBy(ratings, p)]_vars

\* C17 witness: a rating was deleted from a profile that owns another one, while a
\* second profile still owns a rating
C17_Witness ==
    /\ response.op = "delete_rating" /\ response.status = 200
    /\ Cardinality(OwnedBy(ratings, response.profileId)) = 1
    /\ \E p \in DOMAIN profiles \ {response.profileId} : OwnedBy(ratings, p) # {}


\* C18: after a successful deleteProfile(p) no rating, history entry or note owned by
\* p is left, and the child records of every other profile are unchanged.
C18_DeleteProfileCascades ==
    [][\A worker_id \in RecordIds :
          (/\ response'.op = "delete_profile"
           /\ response'.status = 204
           /\ DeleteProfile(worker_id))
          => /\ worker_id \notin DOMAIN profiles'
             /\ \A t \in 1 .. 3 :
                   /\ OwnedBy(ChildTablesAfter[t], worker_id) = {}
                   /\ \A p \in DOMAIN profiles \ {worker_id} :
                         OwnedBy(ChildTablesAfter[t], p) = OwnedBy(ChildTables[t], p)]_vars

\* C18 witness: two submissions made two profiles with a rating and a history entry
\* each; one profile was deleted and the rating and the entry of the other are left
C18_Witness ==
    /\ response.op = "delete_profile" /\ response.status = 204
    /\ ops = 3 - RecordOpsExtra
    /\ seq.profiles = 2 /\ seq.ratings = 2 /\ seq.history = 2
    /\ response.profileId \notin DOMAIN profiles
    /\ \E p \in DOMAIN profiles :
          /\ Cardinality(OwnedBy(ratings, p)) = 1 /\ Cardinality(ratings) = 1
          /\ Cardinality(OwnedBy(history, p)) = 1 /\ Cardinality(history) = 1


\* Thread u commits an updateProfile that is answered 200, after thread t's on the
\* same profile with another body was
SecondUpdateCommits(t, u) ==
    /\ t # u
    /\ threads[u].pc = "write" /\ threads'[u].pc = "done" /\ threads'[u].status = 200
    /\ threads[t].pc = "done" /\ threads[t].status = 200
    /\ threads[t].fields.profile_id = threads[u].fields.profile_id
    /\ threads[t].fields.payload # threads[u].fields.payload

\* The row after request `first` and then request `second`, one after the other
SerialUpdate(existing, first, second) ==
    UpdatedRow(UpdatedRow(existing, first.payload, first.now), second.payload, second.now)

\* C19: when two updateProfile requests that each supply a different single field run
\* concurrently on one profile (both read the row before either wrote it), the
\* stored profile is the one that running them one after the other, in one of the
\* two orders, gives: both changes are present.
C19_ConcurrentUpdatesSerialize ==
    [][\A t, u \in Threads :
          (SecondUpdateCommits(t, u) /\ threads[t].existing = threads[u].existing)
          => profiles'[threads[u].fields.profile_id]
                \in {SerialUpdate(threads[t].existing, threads[t].fields, threads[u].fields),
                     SerialUpdate(threads[t].existing, threads[u].fields, threads[t].fields)}]_vars

\* What the handler does: the UPDATE of a request answered 200 writes every column
\* from the row its SELECT read, whatever has been committed since
C19_UpdateWritesWhatItRead ==
    [][\A t \in Threads :
          (threads[t].pc = "write" /\ threads'[t].pc = "done" /\ threads'[t].status = 200)
          => profiles'[threads[t].fields.profile_id]
                = UpdatedRow(threads[t].existing, threads[t].fields.payload, threads[t].fields.now)]_vars

\* Two updates that did not overlap (the second read the row the first wrote, and
\* it is still the stored row) keep both changes
C19_SerialUpdatesKeepBothChanges ==
    [][\A t, u \in Threads :
          (/\ SecondUpdateCommits(t, u)
           /\ threads[u].existing
                 = UpdatedRow(threads[t].existing, threads[t].fields.payload, threads[t].fields.now)
           /\ threads[u].existing = profiles[threads[u].fields.profile_id])
          => profiles'[threads[u].fields.profile_id]
                = SerialUpdate(threads[t].existing, threads[t].fields, threads[u].fields)]_vars

\* C20: from its insertion to its deletion a rating keeps its category, score,
\* reviewer, note and rated-at; the only column of a stored rating that a request
\* changes is worker_id, and only a successful merge changes it.
C20_RatingsAreImmutable ==
    [][\A r \in ratings, q \in ratings' :
          q.id = r.id
          => /\ q.job_category = r.job_category
             /\ q.score = r.score
             /\ q.reviewer = r.reviewer
             /\ q.notes = r.notes
             /\ q.rated_at = r.rated_at
             /\ q.worker_id # r.worker_id
                   => response'.op = "merge" /\ response'.status = 200]_vars


\* Rating ids are never given out twice: a row that a step inserts has an id above
\* the sequence, so the row a later state has under an id is the row inserted under it
C20_RatingIdsAreFresh ==
    [][\A q \in ratings' :
          (~ \E r \in ratings : r.id = q.id) => q.id > seq.ratings /\ q.id <= seq'.ratings]_vars

\* C20 witness: two submissions stored a rating each under two profiles, a merge moved
\* one of them, and both ratings are stored with the values they were submitted with
C20_Witness ==
    /\ response.op = "merge" /\ response.status = 200
    /\ ops = 3 - RecordOpsExtra
    /\ seq.ratings = 2
    /\ \A r \in ratings : r.worker_id = response.profileId
    /\ \E r, q \in ratings :
          /\ r.id = 1 /\ q.id = 2
          /\ r.score = 4 /\ r.reviewer = Sam /\ r.rated_at = 2
          /\ q.score = -2 /\ q.notes = Ok /\ q.rated_at = 1


\* The action tags of the requests that change the store
Mutations ==
    {"create_profile", "submit_rating", "add_rating", "update_profile", "merge",
     "delete_profile", "delete_rating", "delete_note", "clear_all"}

\* The request of this step changed the store and was answered
Succeeded == response'.op \in Mutations /\ response'.status \in {200, 201, 204}

\* Every registered queue got exactly the message `message` in this step
PublishedOnce(message) ==
    /\ DOMAIN subscribers' = DOMAIN subscribers
    /\ \A q \in DOMAIN subscribers : subscribers'[q] = Append(subscribers[q], message)

\* C21: every successful mutation publishes exactly one change event, which carries
\* the affected profile id and the action tag of the operation; a request that ends
\* in a validation, not-found or conflict error publishes none.
C21_EveryEventNamesItsProfile ==
    [][ops' = ops + 1
       => IF Succeeded
          THEN PublishedOnce([profileId |-> response'.profileId, action |-> response'.op])
          ELSE UNCHANGED subscribers]_vars

\* C21 as the handlers have it: the same, except that the event of clear_all, which
\* removes every profile, carries the action tag alone
C21_OneEventPerMutation ==
    [][ops' = ops + 1
       => IF Succeeded
          THEN /\ PublishedOnce(IF response'.op = "clear_all"
                                THEN [action |-> "clear_all"]
                                ELSE [profileId |-> response'.profileId, action |-> response'.op])
               /\ response'.op \notin {"clear_all", "delete_profile"}
                     => response'.profileId \in DOMAIN profiles'
               /\ response'.op = "delete_profile"
                     => response'.profileId \in DOMAIN profiles \ DOMAIN profiles'
          ELSE UNCHANGED subscribers]_vars

\* C21 witness: the client of /api/events has three messages waiting, of a
\* submission, of the merge refused after it (none) and of two more mutations
C21_Witness ==
    /\ 1 \in DOMAIN subscribers
    /\ Len(subscribers[1]) = 3
    /\ subscribers[1][1].action = "submit_rating"
    /\ subscribers[1][3] = [profileId |-> 1, action |-> "delete_profile"]
    /\ response.op = "delete_profile" /\ response.status = 204


\* C22: publishing never blocks the request: whatever the clients of /api/events do
\* (read slowly, never read, be gone), a request that has begun to publish its
\* change event finishes publish_change_event and sends its answer.
C22_PublishingRequestIsAnswered ==
    \A t \in Threads : threads[t].pc \in {"publish", "put"} ~> threads[t].pc = "done"

\* C22 witness: a delete has been answered 204 while one client has left the
\* message in its queue and the other, whose connection is broken, is still registered
C22_Witness ==
    /\ \E t \in Threads : threads[t].pc = "done" /\ threads[t].status = 204
    /\ response.op = "delete_profile" /\ response.status = 204
    /\ \E s, u \in DOMAIN subscribers :
          /\ streams[s].conn = "open" /\ subscribers[s] # <<>>
             /\ subscribers[s][Len(subscribers[s])].action = "delete_profile"
          /\ streams[u].conn = "broken" /\ subscribers[u] # <<>>

\* TRUE iff a result of score_profile_metrics is in the response
Scored == response.op = "score_profile_metrics"

\* The punctuality ratings among the entries of a profile
PunctualityEntries(entries) ==
    {e \in Range(entries) : is_punctuality_category(e.category)}

\* TRUE iff entry o comes after entry e in (ratedAt, id) order
ComesAfter(o, e) == o.ratedAt > e.ratedAt \/ (o.ratedAt = e.ratedAt /\ o.id > e.id)

\* TRUE iff there are at least three punctuality ratings and the three most recent of
\* them have a raw score of 0 or less
AlwaysLate(entries) ==
    LET punctuality == PunctualityEntries(entries)
    IN  /\ Cardinality(punctuality) >= 3
        /\ \A e \in punctuality :
               Cardinality({o \in punctuality : ComesAfter(o, e)}) < 3 => e.score <= 0

\* C23: a rating's raw score is doubled if and only if its category is a punctuality
\* category and the profile has at least three punctuality ratings of which the three
\* most recent, in (ratedAt, id) order, all have a raw score of 0 or less; every other
\* rating weighs its raw score once, and lateTrendWeightApplied says which case it is.
C23_LateTrendDoublesPunctuality ==
    Scored =>
        LET entries == fetch_ratings(ratings, 1)
            late == AlwaysLate(entries)
            sorted_ratings == sorted(response.ratings)
            applied == late_trend_applied(recent_punctuality(sorted_ratings))
            weighted == weighted_scores(sorted_ratings, applied)
        IN  /\ response.metrics.lateTrendWeightApplied = late
            /\ applied = late
            /\ Len(weighted) = Len(entries)
            /\ \A i \in DOMAIN entries :
                  /\ multiplier(applied, entries[i].category) = 2
                        <=> (is_punctuality_category(entries[i].category) /\ late)
                  /\ weighted[i] = entries[i].score
                                   * (IF is_punctuality_category(entries[i].category) /\ late
                                      THEN 2 ELSE 1)

\* "Punctuality" rated -2 three times with increasing timestamps: the trend is applied
\* and each rating weighs -4
C23_Witness ==
    /\ Scored
    /\ ratings = RatingTable(ThreeLateRatings)
    /\ response.ratings # fetch_ratings(ratings, 1)
    /\ response.metrics.lateTrendWeightApplied
    /\ weighted_scores(sorted(response.ratings), response.metrics.lateTrendWeightApplied)
           = <<-4, -4, -4>>

\* TRUE iff the entries at positions i .. j all have a five-point score of 3.50 or more
PositiveRun(entries, i, j) ==
    \A k \in i .. j : to_five_point_scale(entries[k].score, 1) >= 350

\* TRUE iff some run of `length` consecutive entries is positive
HasPositiveRun(entries, length) ==
    \E i \in 1 .. Len(entries) - length + 1 : PositiveRun(entries, i, i + length - 1)

\* C24: bestPositiveStreak is the length of the longest run of consecutive ratings, in
\* (ratedAt, id) order, whose five-point score is 3.50 or more; currentPositiveStreak
\* is the length of the run that ends at the last rating (0 when the last rating is
\* below 3.50), and is never more than bestPositiveStreak.
C24_StreaksAreRuns ==
    Scored =>
        LET entries == fetch_ratings(ratings, 1)
            n == Len(entries)
            best == response.metrics.bestPositiveStreak
            current == response.metrics.currentPositiveStreak
        IN  /\ best \in 0 .. n
            /\ best > 0 => HasPositiveRun(entries, best)
            /\ best < n => ~HasPositiveRun(entries, best + 1)
            /\ current \in 0 .. best
            /\ PositiveRun(entries, n - current + 1, n)
            /\ current < n => ~PositiveRun(entries, n - current, n - current)

\* Five-point scores 4.0, 4.0, 4.0, 2.0, 4.0, handed over in another order: best 3,
\* current 1
C24_Witness ==
    /\ Scored
    /\ ratings = RatingTable(FiveRatings)
    /\ response.ratings # fetch_ratings(ratings, 1)
    /\ normalized_scores(fetch_ratings(ratings, 1)) = <<400, 400, 400, 200, 400>>
    /\ response.metrics.bestPositiveStreak = 3
    /\ response.metrics.currentPositiveStreak = 1

\* C25: for every list of ratings, the empty one and those whose punctuality scores
\* are doubled included, the overall score lies in [0, 5] and the consistency score in
\* [0, 100] (both counted in hundredths).
C25_ScoresStayInRange ==
    Scored =>
        /\ response.metrics.normalizedOverallScore \in 0 .. 500
        /\ response.metrics.consistencyScore \in 0 .. 10000

\* Doubled punctuality scores whose average lies below -5, the bottom of the scale
C25_Witness ==
    /\ Scored
    /\ response.metrics.lateTrendWeightApplied
    /\ LET sorted_ratings == sorted(response.ratings)
       IN  Sum(weighted_scores(sorted_ratings, TRUE)) < 0 - 5 * Len(sorted_ratings)
    /\ response.metrics.normalizedOverallScore = 0
    /\ response.metrics.consistencyScore = 10000

\* C26: the metrics depend on the set of ratings only: a list of ratings with distinct
\* ids gives the same metrics in whatever order it is handed over, equal timestamps
\* included, and a second call with the same list gives the same metrics again.
C26_MetricsIgnoreListOrder ==
    Scored =>
        /\ response.metrics = score_profile_metrics(fetch_ratings(ratings, 1))
        /\ response.metrics = score_profile_metrics(response.ratings)

\* Ratings with equal timestamps, handed over with the later id first, whose good and
\* bad scores make the streaks depend on the order
C26_Witness ==
    /\ Scored
    /\ \E i, j \in DOMAIN response.ratings :
          /\ i < j
          /\ response.ratings[i].ratedAt = response.ratings[j].ratedAt
          /\ response.ratings[i].id > response.ratings[j].id
          /\ response.ratings[i].score # response.ratings[j].score
    /\ response.metrics.currentPositiveStreak > 0
    /\ response.metrics.bestPositiveStreak < Len(response.ratings)

\* str.upper() on the letters of the model
UpperOf == [c \in {LowerOf[u] : u \in DOMAIN LowerOf} |->
               CHOOSE u \in DOMAIN LowerOf : LowerOf[u] = c]

UpperStr(s) == [i \in DOMAIN s |-> IF s[i] \in DOMAIN UpperOf THEN UpperOf[s[i]] ELSE s[i]]

\* Every run of whitespace written as a tab and a space
RECURSIVE Widened(_)
Widened(s) ==
    IF s = <<>> THEN <<>>
    ELSE IF IsSpace(Head(s)) THEN <<"\t", " ">> \o Widened(LStrip(Tail(s)))
    ELSE <<Head(s)>> \o Widened(Tail(s))

\* A space after every character
RECURSIVE SpacedOut(_)
SpacedOut(s) == IF s = <<>> THEN <<>> ELSE <<Head(s), " ">> \o SpacedOut(Tail(s))

\* Names that differ from a name in letter case, in the whitespace around it or in the
\* length and kind of the whitespace between its words
NameVariantsOf(name) ==
    {LowerStr(name), UpperStr(name), <<" ">> \o name, name \o <<"\t", " ">>, Widened(name),
     <<"\t">> \o UpperStr(Widened(name)) \o <<" ">>}

\* Employee ids that differ from an id in letter case or in whitespace anywhere
EmployeeIdVariantsOf(employee_id) ==
    IF employee_id = NULL THEN {NULL, <<>>, <<" ">>}
    ELSE {LowerStr(employee_id), UpperStr(employee_id), <<" ">> \o employee_id,
          employee_id \o <<" ">>, Widened(employee_id), UpperStr(SpacedOut(employee_id))}

Canonicalized == response.op = "canonical_worker_key"

\* C27: canonicalization is idempotent: the key of a name and an employee id is the
\* key of the normalized name and the normalized employee id, and inputs that differ
\* only in letter case or in whitespace formatting have the same key.
C27_CanonicalKeyIsIdempotent ==
    Canonicalized =>
        /\ response.key = canonical_worker_key(normalize_worker_name(response.name),
                                               normalize_employee_id(response.employeeId))
        /\ normalize_worker_name(normalize_worker_name(response.name))
              = normalize_worker_name(response.name)
        /\ normalize_employee_id(normalize_employee_id(response.employeeId))
              = normalize_employee_id(response.employeeId)
        /\ \A name \in NameVariantsOf(response.name),
              employee_id \in EmployeeIdVariantsOf(response.employeeId) :
              canonical_worker_key(name, employee_id) = response.key

\* A two-word name in mixed case with a tab in it and an employee id with a space in
\* it: neither is in normal form
C27_Witness ==
    /\ Canonicalized
    /\ response.name = <<"A", "\t", "b">>
    /\ response.employeeId = <<"E", " ", "1">>
    /\ response.key = <<"a", " ", "b", ":", ":", "e", "1">>

\* TRUE iff a step gave a row of profile s in a table to profile g
Moved(rows, rowsAfter, s, g) ==
    \E r \in rows : r.worker_id = s /\ [r EXCEPT !.worker_id = g] \in rowsAfter

\* TRUE iff a step gave every row of profile s in a table to profile g
AllMoved(rows, rowsAfter, s, g) ==
    /\ \A r \in rows : r.worker_id = s => [r EXCEPT !.worker_id = g] \in rowsAfter
    /\ \A r \in rowsAfter : r.worker_id # s

\* The statements of a merge that come after its first write
MergeWrites == {"update_history", "update_notes", "delete_source", "build_profile"}

C29_BrokenSubscriberIsRemoved ==
    \A s \in Clients :
        (s \in DOMAIN subscribers /\ streams[s].conn \in {"closing", "broken"})
            ~> (s \notin DOMAIN subscribers /\ streams[s].pc = "closed")

\* A subscriber whose connection broke while its queue was empty has been removed,
\* and a publish since then reached only the subscriber that is left
C29_Witness ==
    \E s, u \in Clients :
        /\ streams[s].pc = "closed"
        /\ streams[s].conn = "broken"
        /\ s \notin DOMAIN subscribers
        /\ u \in DOMAIN subscribers
        /\ subscribers[u] # <<>>
        /\ \E t \in Threads : threads[t].pc = "done" /\ threads[t].status = 204

\* C30: in every reachable state the stored canonical name of each profile is the
\* normalized form of its stored name, and its stored canonical key is the canonical
\* key of its stored name and its stored external employee id.
C30_CanonicalFieldsMatchStoredFields ==
    \A p \in DOMAIN profiles :
        /\ profiles[p].canonical_name = normalize_worker_name(profiles[p].name)
        /\ profiles[p].canonical_worker_key
              = canonical_worker_key(profiles[p].name, profiles[p].external_employee_id)

\* TRUE iff the canonical fields of a row are those of its own name and employee id
CanonicalRow(row) ==
    /\ row.canonical_name = normalize_worker_name(row.name)
    /\ row.canonical_worker_key = canonical_worker_key(row.name, row.external_employee_id)

\* C30, for the requests that write the name with the canonical fields: a row that
\* submitRating or createOrUpdateProfile inserts, and a row that updateProfile
\* rewrites, has the canonical fields of its own name and employee id.
C30_InsertedAndRenamedRowsAreCanonical ==
    [][/\ response'.op \in {"submit_rating", "create_profile", "update_profile"}
       /\ response'.status \in {200, 201}
       /\ response'.profileId \notin DOMAIN profiles \/ response'.op = "update_profile"
       => CanonicalRow(profiles'[response'.profileId])]_vars


\* ------------------------------------------------------------------------
\* C31: in every reachable state, under every interleaving of requests that write
\* ratings, history entries and notes with requests that delete or merge their
\* profile, each rating, history entry and note is owned by a profile that exists,
\* both in the committed tables and in what an open transaction has written
\* ------------------------------------------------------------------------
Owned(db) ==
    \A r \in db.ratings \cup db.history \cup db.notes : r.worker_id \in DOMAIN db.profiles

C31_NoOrphanedRecords ==
    /\ Owned(Committed)
    /\ \A t \in Threads : InTransaction(t) => Owned(threads[t].fields.tx)

\* A rating was saved for a profile, and a request that found its profile before
\* the profile was deleted or merged away has had its INSERT refused
C31_Witness ==
    /\ ratings # {}
    /\ response.op \in {"add_rating", "update_profile"}
    /\ response.raised = "IntegrityError"
    /\ \E t \in Threads : /\ threads[t].pc = "done"
                          /\ threads[t].fields # <<>>
                          /\ threads[t].status = 0


\* ------------------------------------------------------------------------
\* C32: a submitRating or createOrUpdateProfile request that carries no employee id
\* and that the resolver's name fallback resolves to an existing profile leaves the
\* external employee id and the canonical key of that profile as they were
\* ------------------------------------------------------------------------
\* TRUE iff the request just answered carried no employee id, matched no profile by
\* its key and was resolved to profile p by its name
ResolvedByNameFallback(p) ==
    /\ response'.op \in {"submit_rating", "create_profile"}
    /\ response'.status = 200
    /\ response'.profileId = p
    /\ response'.employeeId = NULL
    /\ key_lookup(profiles, canonical_worker_key(response'.name, NULL)) = NoMatch
    /\ name_lookup(profiles, response'.name) = p

C32_NameFallbackKeepsEmployeeId ==
    [][\A p \in DOMAIN profiles :
          ResolvedByNameFallback(p) =>
              /\ profiles'[p].external_employee_id = profiles[p].external_employee_id
              /\ profiles'[p].canonical_worker_key = profiles[p].canonical_worker_key]_vars


\* ------------------------------------------------------------------------
\* C33: the change event of a mutation is published only after the transaction of
\* the mutation has committed, so that whoever reads after receiving the event
\* reads the effect; a transaction that is rolled back publishes no event
\* ------------------------------------------------------------------------
\* The messages that a thread is about to put, or that wait on a queue
PublishedMessages ==
    {threads[t].fields.message : t \in {u \in Threads : threads[u].pc \in {"publish", "put"}}}
    \cup UNION {Range(subscribers[q]) : q \in DOMAIN subscribers}

\* What the committed tables, which every read sees, keep of the mutation that
\* message m reports.  AUTOINCREMENT never hands out an id again, so each of them
\* is there from the commit on: the deleted profile is gone; the profile that was
\* rated has been inserted and, unless deleted or merged away since, has a rating;
\* the merge has removed a profile other than its target
EffectIsCommitted(m) ==
    /\ m.profileId <= seq.profiles
    /\ m.action = "delete_profile" => m.profileId \notin DOMAIN profiles
    /\ m.action = "submit_rating" =>
          (m.profileId \in DOMAIN profiles => \E r \in ratings : r.worker_id = m.profileId)
    /\ m.action = "merge" =>
          \E source_id \in (1 .. seq.profiles) \ {m.profileId} : source_id \notin DOMAIN profiles

\* The request of thread t ends in this step with a rollback: an exception left its
\* with-block
RollsBack(t) ==
    /\ threads'[t] # threads[t]
    /\ response' # response
    /\ response'.raised # ""

C33_EventFollowsCommit ==
    /\ [](\A m \in PublishedMessages : EffectIsCommitted(m))
    /\ [](\A t \in Threads : threads[t].pc \in {"publish", "put"} =>
              /\ ~InTransaction(t)
              /\ threads[t].fields.message.action = "merge" =>
                    threads[t].fields.source_id \notin DOMAIN profiles)
    /\ [][\A t \in Threads : RollsBack(t) =>
              /\ threads[t].pc \notin {"publish", "put"}
              /\ threads'[t].pc = "done"
              /\ subscribers' = subscribers]_vars

\* The reader has the event of a rating on its queue while the request of the other
\* thread, which lost the race for the same new worker, has been rolled back; and a
\* read has been answered since
C33_Witness ==
    /\ \E m \in Range(subscribers[Reader]) : m.action = "submit_rating"
    /\ \E t \in Threads : threads[t].pc = "done" /\ threads[t].status = 409
    /\ response.op = "get_profile"
    /\ response.status = 200


\* ------------------------------------------------------------------------
\* C34: every subscriber that registered before two mutations dequeues their change
\* events in the order in which the two mutations committed, so all of them see the
\* same order
\* ------------------------------------------------------------------------
\* TRUE iff message m is ahead of message n on the queue
Precedes(queue, m, n) ==
    \E i \in DOMAIN queue : \E j \in DOMAIN queue : i < j /\ queue[i] = m /\ queue[j] = n

\* A deleted profile is never found again and its id never handed out again, so the
\* delete is the last mutation of the profile to commit: in commit order no event
\* that names the profile comes after the event of its deletion
C34_EventsInCommitOrder ==
    \A q \in DOMAIN subscribers :
        \A m \in Range(subscribers[q]) : \A n \in Range(subscribers[q]) :
            (m.action = "delete_profile" /\ n # m /\ n.profileId = m.profileId) =>
                ~Precedes(subscribers[q], m, n)

\* No two subscribers have two events in opposite orders
C34_SubscribersSeeSameOrder ==
    \A q1 \in DOMAIN subscribers : \A q2 \in DOMAIN subscribers :
        \A m \in Range(subscribers[q1]) : \A n \in Range(subscribers[q1]) :
            (/\ Precedes(subscribers[q1], m, n) /\ ~Precedes(subscribers[q1], n, m)
             /\ Precedes(subscribers[q2], n, m)) => Precedes(subscribers[q2], m, n)


\* ------------------------------------------------------------------------
\* C35: canonical_worker_key is injective on normalized identities, names that hold
\* "::" included: when the name and the employee id a request submits have the key of
\* the name and the employee id of a stored profile, the two names have the same
\* normalized form and the two employee ids have the same normalized form, so that a
\* request the resolver answers by its exact-key match is given a profile of the
\* normalized name and of the employee id it submitted
\* ------------------------------------------------------------------------
SameNormalizedIdentity(a, b) ==
    /\ normalize_worker_name(a[1]) = normalize_worker_name(b[1])
    /\ normalize_employee_id(a[2]) = normalize_employee_id(b[2])

\* TRUE iff this step answers a request with profile p, which the exact-key match
\* of the resolver found, and the stored key of p is the key of its name and its
\* employee id
ResolvedByExactKey(p) ==
    /\ response'.op \in {"submit_rating", "create_profile"}
    /\ response'.status = 200
    /\ response'.profileId = p
    /\ key_lookup(profiles, canonical_worker_key(response'.name, response'.employeeId)) = p
    /\ profiles[p].canonical_worker_key
          = canonical_worker_key(profiles[p].name, profiles[p].external_employee_id)

C35_CanonicalKeyIsInjective ==
    [][\A p \in DOMAIN profiles :
          ResolvedByExactKey(p) =>
              SameNormalizedIdentity(<<profiles[p].name, profiles[p].external_employee_id>>,
                                     <<response'.name, response'.employeeId>>)]_vars

====
